---- MODULE Spec2Model ----
(***************************************************************************)
(* Orchestration core of SkySimTacticalGG: the Router and its Redis        *)
(* capacity counters, the Celery task runner, the speculative race, the    *)
(* Celery orchestration and the in-process Orchestrator.                   *)
(***************************************************************************)
EXTENDS Integers, Sequences, FiniteSets, TLC

(***************************************************************************)
(* Worker configuration (config/agents.yaml, read by Router._load_config). *)
(* The file is an input of the program; this is one catalog.  A missing    *)
(* key takes the default the code gives it with cfg.get(key, default).     *)
(***************************************************************************)
WorkerOrder ==
    << "micro_detector", "perception_alt", "prompt_generator",
       "motion_generator", "motion_backup", "validator", "scorer" >>

Workers == { WorkerOrder[i] : i \in 1..Len(WorkerOrder) }

Config ==
    [ micro_detector   |-> [ capabilities |-> {"perception", "heuristics"},
                             priority |-> 10, max_concurrency |-> 1,
                             queue |-> "perception" ],
      perception_alt   |-> [ capabilities |-> {"perception"}, priority |-> 5 ],
      prompt_generator |-> [ capabilities |-> {"nl_generation"},
                             priority |-> 8, max_concurrency |-> 2 ],
      motion_generator |-> [ capabilities |-> {"motion_generation", "smpl"},
                             priority |-> 9, max_concurrency |-> 1,
                             queue |-> "gpu" ],
      motion_backup    |-> [ capabilities |-> {"motion_generation"},
                             priority |-> 9, max_concurrency |-> 1,
                             queue |-> "gpu_backup" ],
      validator        |-> [ capabilities |-> {"validation", "scoring"},
                             priority |-> 7, max_concurrency |-> 2 ],
      scorer           |-> [ capabilities |-> {"scoring"}, priority |-> 3 ] ]

\* The agent classes registered with @register_agent; perception_alt is
\* configured but not registered.
Registered == Workers \ {"perception_alt"}

\* dict.get(key, default)
Get(d, key, default) == IF key \in DOMAIN d THEN d[key] ELSE default

MaxConcurrency(w) == Get(Get(Config, w, << >>), "max_concurrency", 1)
QueueOfGeneral(w) == "general"
QueueOf(w) == Get(Config[w], "queue", "general")
Priority(w) == Get(Config[w], "priority", 0)
Capabilities(w) == Get(Config[w], "capabilities", {})

None == "none"

\* Falsy dict / None, as Python's "if x", "x or {}" see them
Truthy(d) == d # << >>

\* {**a, **b}
MergeReplace(a, b) == b
Merge(a, b) ==
    [ k \in DOMAIN a \cup DOMAIN b |-> IF k \in DOMAIN b THEN b[k] ELSE a[k] ]

Req == {"r1", "r2"}
Slots == {"orch", "perc", "prompt", "m1", "m2", "m3", "v1", "v2"}
TaskIds == Req \X Slots
Orch(r) == << r, "orch" >>

Clients == { << "c1", "client" >>, << "c2", "client" >>, << "c3", "client" >> }
ThreadRoles == {"primary", "backup", "v1", "v2", "v3"}
Threads == Req \X ThreadRoles
SyncCallers == Threads \cup { Orch(r) : r \in Req }
Callers == Clients \cup SyncCallers

VARIABLES
    cnt,      \* Redis agents:runcount:<worker>, as current_load reads it
    ttl,      \* whether that key carries an expiry
    idem,     \* Redis idem:<match_id>:<round> -> task_id, None when absent
    pubsub,   \* per race channel speculative:<spec_id>: the subscription
    log,      \* MessageBus channel agents:events, per publisher
    rc,       \* per caller: the Router call it is executing
    client,   \* direct callers of reserve_slot / release_slot
    run,      \* per request: the run_orchestration task
    task,     \* per Celery handle: the run_agent_task invocation
    thr       \* per in-process thread: its _run_agent_sync invocation

vars == << cnt, ttl, idem, pubsub, log, rc, client, run, task, thr >>

(***************************************************************************)
(* Router                                                                  *)
(***************************************************************************)
\* caps, net and refused record what the call was asked, what it has added
\* to each counter so far and the candidates it has passed over
IdleCall ==
    [ op |-> "none", pc |-> "idle", w |-> "", cands |-> << >>, i |-> 0,
      name |-> None, queue |-> None, reserved |-> FALSE, raised |-> FALSE,
      caps |-> {}, net |-> [ v \in Workers |-> 0 ], refused |-> {} ]

current_load(w) == cnt[w]

capacity_ok(w) == current_load(w) < MaxConcurrency(w)

\* reserve_slot's test on the value its own increment returned
ReserveOverMutant(val, w) == val > MaxConcurrency(w) + 1
ReserveOver(val, w) == val > MaxConcurrency(w)

\* key (-priority, current_load)
CandLessNoLoad(a, b) == Priority(a) > Priority(b)
CandLess(a, b) ==
    \/ Priority(a) > Priority(b)
    \/ Priority(a) = Priority(b) /\ current_load(a) < current_load(b)

\* list.sort is stable: x goes after every element whose key is <= x's
RECURSIVE InsertSorted(_, _)
InsertSorted(x, s) ==
    IF s = << >> THEN << x >>
    ELSE IF CandLess(x, Head(s)) THEN << x >> \o s
    ELSE << Head(s) >> \o InsertSorted(x, Tail(s))

RECURSIVE StableSort(_)
StableSort(s) ==
    IF s = << >> THEN << >>
    ELSE InsertSorted(s[Len(s)], StableSort(SubSeq(s, 1, Len(s) - 1)))

\* the workers agents.yaml lists: those that have a counter key
Configured == DOMAIN cnt

Matches(w, caps) == w \in Configured /\ Capabilities(w) \cap caps # {}

choose_agents_for_capability(caps) ==
    StableSort(SelectSeq(WorkerOrder, LAMBDA w : Matches(w, caps)))

\* pick_agent up to its first Redis command after the candidate list
PickBegin(caps) ==
    LET cands == choose_agents_for_capability(caps)
    IN  IF cands = << >>
        THEN [ IdleCall EXCEPT !.op = "pick", !.pc = "ret", !.caps = caps ]
        ELSE [ IdleCall EXCEPT !.op = "pick", !.pc = "cap", !.cands = cands,
                               !.i = 1, !.caps = caps ]

\* pick_agent after candidate i was refused: the next one, or the fallback
PickAdvanceLast(call) ==
    [ call EXCEPT !.pc = "ret", !.w = "", !.name = call.cands[Len(call.cands)],
                  !.queue = QueueOf(call.cands[Len(call.cands)]),
                  !.reserved = FALSE, !.refused = @ \cup {call.cands[call.i]} ]
PickAdvance(call) ==
    IF call.i < Len(call.cands)
    THEN [ call EXCEPT !.pc = "cap", !.i = @ + 1, !.w = "",
                       !.refused = @ \cup {call.cands[call.i]} ]
    ELSE [ call EXCEPT !.pc = "ret", !.w = "", !.name = call.cands[1],
                       !.queue = QueueOf(call.cands[1]), !.reserved = FALSE,
                       !.refused = @ \cup {call.cands[call.i]} ]

ReserveBegin(w) == [ IdleCall EXCEPT !.op = "reserve", !.pc = "incr", !.w = w ]

\* Redis unreachable: every command raises redis.ConnectionError, which
\* neither the Router nor redis_client catches.  pick_agent meets it in the
\* sort key's current_load (not called when nothing matches), reserve_slot
\* in incr_capacity.
PickDownFailOpen(caps) == PickBegin(caps)
PickDown(caps) ==
    IF choose_agents_for_capability(caps) = << >>
    THEN PickBegin(caps)
    ELSE [ IdleCall EXCEPT !.op = "pick", !.pc = "ret", !.caps = caps,
                           !.raised = TRUE ]

ReserveDown(w) ==
    [ IdleCall EXCEPT !.op = "reserve", !.pc = "ret", !.w = w, !.raised = TRUE ]

\* if self.capacity_ok(name):
RouterCapOk(c) ==
    /\ rc[c].pc = "cap"
    /\ LET w == rc[c].cands[rc[c].i]
       IN  rc' = [ rc EXCEPT ![c] =
                     IF capacity_ok(w)
                     THEN [ @ EXCEPT !.pc = "incr", !.w = w ]
                     ELSE PickAdvance(@) ]
    /\ UNCHANGED << cnt, ttl >>

\* val = incr_capacity(key, 1, ex=ex) and the test that follows
RouterIncr(c) ==
    /\ rc[c].pc = "incr"
    /\ LET w == rc[c].w
           val == cnt[w] + 1
       IN  /\ cnt' = [ cnt EXCEPT ![w] = val ]
           /\ ttl' = [ ttl EXCEPT ![w] = TRUE ]
           /\ rc' = [ rc EXCEPT ![c] =
                        IF ReserveOver(val, w)
                        THEN [ @ EXCEPT !.pc = "undo", !.net[w] = @ + 1 ]
                        ELSE [ @ EXCEPT !.pc = "ret", !.name = w,
                                        !.queue = QueueOf(w),
                                        !.reserved = TRUE,
                                        !.net[w] = @ + 1 ] ]

\* decr_capacity(key, 1); return False
RouterUndo(c) ==
    /\ rc[c].pc = "undo"
    /\ cnt' = [ cnt EXCEPT ![rc[c].w] = @ - 1 ]
    /\ rc' = [ rc EXCEPT ![c] =
                 LET undone == [ @ EXCEPT !.net[rc[c].w] = @ - 1 ]
                 IN  IF @.op = "pick" THEN PickAdvance(undone)
                     ELSE [ undone EXCEPT !.pc = "ret", !.reserved = FALSE ] ]
    /\ UNCHANGED ttl

\* a Redis command of a call under way raises redis.ConnectionError: the
\* GET of capacity_ok, the INCRBY, the EXPIRE that follows it (the
\* increment is then in place) or the compensating DECRBY
RouterDown(c) ==
    /\ rc[c].pc \in {"cap", "incr", "undo"}
    /\ \E added \in { n \in 0..1 : n = 1 => rc[c].pc = "incr" } :
         /\ cnt' = IF added = 1 THEN [ cnt EXCEPT ![rc[c].w] = @ + 1 ] ELSE cnt
         /\ rc' = [ rc EXCEPT ![c] =
                      [ @ EXCEPT !.pc = "ret", !.w = "", !.raised = TRUE,
                                 !.net = IF added = 1
                                         THEN [ @ EXCEPT ![rc[c].w] = @ + 1 ]
                                         ELSE @ ] ]
    /\ UNCHANGED ttl

\* the expiry set by r.expire(key, ex) runs out: Redis deletes the key
CounterExpire(w) ==
    /\ ttl[w]
    /\ cnt' = [ cnt EXCEPT ![w] = 0 ]
    /\ ttl' = [ ttl EXCEPT ![w] = FALSE ]
    /\ UNCHANGED rc

(***************************************************************************)
(* Direct callers of the ledger: reserve_slot, then release_slot for every *)
(* reservation that was granted.                                           *)
(***************************************************************************)
orchVars == << idem, pubsub, log, run, task, thr >>

LedgerWorkers == {"scorer", "prompt_generator"}

ClientReserve(c, w) ==
    /\ client[c].pc = "idle"
    /\ rc' = [ rc EXCEPT ![c] = ReserveBegin(w) ]
    /\ client' = [ client EXCEPT ![c] = [ pc |-> "reserving", w |-> w ] ]
    /\ UNCHANGED << cnt, ttl, orchVars >>

ClientReturn(c) ==
    /\ client[c].pc = "reserving"
    /\ rc[c].pc = "ret"
    /\ client' = [ client EXCEPT ![c].pc =
                     IF rc[c].reserved THEN "holding" ELSE "idle" ]
    /\ rc' = [ rc EXCEPT ![c] = IdleCall ]
    /\ UNCHANGED << cnt, ttl, orchVars >>

\* a caller of pick_agent; it releases the slot it was given, if any
PickCaps ==
    { {"motion_generation"}, {"perception", "heuristics"}, {"rendering"} }

ClientPick(c, caps) ==
    /\ client[c].pc = "idle"
    /\ rc' = [ rc EXCEPT ![c] = PickBegin(caps) ]
    /\ client' = [ client EXCEPT ![c] = [ pc |-> "picking", w |-> "" ] ]
    /\ UNCHANGED << cnt, ttl, orchVars >>

ClientPicked(c) ==
    /\ client[c].pc = "picking"
    /\ rc[c].pc = "ret"
    /\ client' = [ client EXCEPT ![c] =
                     IF rc[c].reserved
                     THEN [ pc |-> "holding", w |-> rc[c].name ]
                     ELSE [ pc |-> "idle", w |-> "" ] ]
    /\ rc' = [ rc EXCEPT ![c] = IdleCall ]
    /\ UNCHANGED << cnt, ttl, orchVars >>

\* the same calls while Redis is unreachable
ClientPickDown(c, caps) ==
    /\ client[c].pc = "idle"
    /\ rc' = [ rc EXCEPT ![c] = PickDown(caps) ]
    /\ client' = [ client EXCEPT ![c] = [ pc |-> "picking", w |-> "" ] ]
    /\ UNCHANGED << cnt, ttl, orchVars >>

ClientReserveDown(c, w) ==
    /\ client[c].pc = "idle"
    /\ rc' = [ rc EXCEPT ![c] = ReserveDown(w) ]
    /\ client' = [ client EXCEPT ![c] = [ pc |-> "reserving", w |-> w ] ]
    /\ UNCHANGED << cnt, ttl, orchVars >>

\* the calling process dies after its INCRBY: before the EXPIRE that
\* follows it, before the compensating DECRBY, or while it holds the slot
HolderCrash(c) ==
    /\ \/ /\ rc[c].pc = "incr"
          /\ cnt' = [ cnt EXCEPT ![rc[c].w] = @ + 1 ]
       \/ /\ rc[c].pc = "undo" \/ client[c].pc = "holding"
          /\ cnt' = cnt
    /\ rc' = [ rc EXCEPT ![c] = IdleCall ]
    /\ client' = [ client EXCEPT ![c].pc = "crashed" ]
    /\ UNCHANGED << ttl, orchVars >>

\* release_slot(agent_name)
ClientRelease(c) ==
    /\ client[c].pc = "holding"
    /\ cnt' = [ cnt EXCEPT ![client[c].w] = @ - 1 ]
    /\ client' = [ client EXCEPT ![c].pc = "idle" ]
    /\ UNCHANGED << ttl, rc, orchVars >>

(***************************************************************************)
(* Requests and worker results (inputs)                                    *)
(***************************************************************************)
PayloadA == [ match_id |-> "m1", round |-> "4", characters |-> "stale" ]
PayloadB == [ match_id |-> "m1", round |-> "5", grid_snapshot |-> "g0" ]

\* what each worker's run() may return
WorkerResults(agent) ==
    CASE agent = "micro_detector" ->
            { [ characters |-> "c1", heuristics |-> "h1" ] }
      [] agent = "prompt_generator" -> { [ prompt |-> "p1" ] }
      [] agent \in {"motion_generator", "motion_backup"} ->
            { [ frames |-> << "f1", "f2" >> ] }
      [] OTHER -> { [ valid |-> "true" ] }

idempotency_key(payload) ==
    << Get(payload, "match_id", None), Get(payload, "round", None) >>

IdemKeys == { idempotency_key(p) : p \in {PayloadA, PayloadB} }

\* if redis.get(idem_key):
IdemHitNever(v) == FALSE
IdemHit(v) == v # None

NoRet == [ kind |-> "none" ]

NewRun(impl, payload) ==
    [ impl |-> impl, pc |-> "new", payload |-> payload,
      wrote |-> FALSE, seen |-> None, seen_ret |-> "none",
      perc_res |-> << >>, prompt_payload |-> << >>, prompt_res |-> << >>,
      primary |-> IdleCall, agent_specs |-> << >>, spec_payload |-> << >>,
      li |-> 0, elapsed |-> 0, winner |-> << >>, spec_winner |-> << >>,
      recvd |-> << >>, revoke_err |-> {},
      validators |-> << >>, ret |-> NoRet,
      step |-> 0, data |-> << >>, results |-> << >>, motion_result |-> << >>,
      fan_specs |-> << >>, val_list |-> << >>, val_returned |-> << >> ]

NoTask ==
    [ state |-> "none", agent |-> "", payload |-> << >>, out |-> << >>,
      error |-> "", reserved |-> FALSE, released |-> 0, revoked |-> FALSE,
      pubAt |-> -1, invoked |-> FALSE ]

\* run_agent_task.apply_async(args=(agent_name, payload), queue=queue)
Queued(agent, payload, reserved) ==
    [ NoTask EXCEPT !.state = "queued", !.agent = agent, !.payload = payload,
                    !.reserved = reserved ]

NoThread ==
    [ pc |-> "idle", spec |-> << >>, agent |-> None, payload |-> << >>,
      reserved |-> FALSE, released |-> 0, res |-> << >>, err |-> "" ]

\* message_bus.publish(payload), payload["task_id"] = tid, kept per publisher
PublishedAs(l, pub, tid, evs) ==
    [ l EXCEPT ![pub] =
        @ \o [ i \in 1..Len(evs) |-> Merge([ task_id |-> tid ], evs[i]) ] ]

Published(l, tid, evs) == PublishedAs(l, tid, tid, evs)

(***************************************************************************)
(* celery_tasks_agents.run_agent_task                                      *)
(***************************************************************************)
needs_human_review(out, payload) ==
    \/ Get(payload, "_require_human_review", FALSE)
    \/ LET res  == Get(out, "result", << >>)
           conf == IF Truthy(res) THEN Get(res, "confidence", None)
                   ELSE Get(out, "confidence", None)
           c2   == IF conf = None THEN Get(payload, "_confidence", None)
                   ELSE conf
       IN  /\ c2 # None
           /\ c2 < Get(payload, "_human_confidence_threshold", 80)

\* One invocation, from the worker process picking the message up to its
\* return: start event, worker run, normalise, done event, publish on the
\* race channel when the payload carries _spec_id, review policy.
Task_Ok(t) ==
    /\ task[t].state = "queued"
    /\ task[t].agent \in Registered
    /\ \E res \in WorkerResults(task[t].agent), review_ok \in BOOLEAN :
         LET agent   == task[t].agent
             payload == task[t].payload
             out     == [ agent |-> agent, result |-> res ]
             spec_id == Get(payload, "_spec_id", None)
             pub     == [ agent |-> agent, result |-> out, task_id |-> t ]
             sent    == spec_id # None /\ pubsub[spec_id].subscribed
             review  == needs_human_review(out, payload) /\ review_ok
         IN  /\ log' = Published(log, t,
                   << [ stage |-> agent \o ":start" ],
                      [ stage |-> agent \o ":done" ] >>
                   \o IF review
                      THEN << [ event |-> "human_review.created" ] >>
                      ELSE << >>)
             /\ pubsub' = IF sent
                          THEN [ pubsub EXCEPT ![spec_id].queue =
                                   Append(@, [ kind |-> "json", obj |-> pub ]) ]
                          ELSE pubsub
             /\ task' = [ task EXCEPT ![t].state = "ok", ![t].out = out,
                            ![t].invoked = TRUE,
                            ![t].pubAt = IF sent
                                         THEN run[spec_id].elapsed ELSE -1 ]
             /\ needs_human_review(out, payload) \/ review_ok
    /\ UNCHANGED << cnt, ttl, idem, rc, client, thr, run >>

\* One invocation that raises: start event, then get_agent's KeyError or
\* the worker's exception (its own error or the soft time limit), error
\* event, re-raise.
Task_FailPublishes(t) ==
    /\ task[t].state = "queued"
    /\ LET spec_id == Get(task[t].payload, "_spec_id", None)
           pub == [ agent |-> task[t].agent, result |-> << >>, task_id |-> t ]
       IN  /\ pubsub' = IF spec_id # None
                        THEN [ pubsub EXCEPT ![spec_id].queue =
                                 Append(@, [ kind |-> "json", obj |-> pub ]) ]
                        ELSE pubsub
           /\ task' = [ task EXCEPT ![t].state = "failed",
                                    ![t].error = "worker_error" ]
           /\ log' = Published(log, t,
                 << [ stage |-> task[t].agent \o ":start" ],
                    [ stage |-> task[t].agent \o ":error", error |-> "worker_error" ] >>)
    /\ UNCHANGED << cnt, ttl, idem, rc, client, thr, run >>
Task_Fail(t) ==
    /\ task[t].state = "queued"
    /\ \E err \in IF task[t].agent \in Registered
                  THEN {"worker_error"} ELSE {"Unknown agent"} :
         /\ task' = [ task EXCEPT ![t].state = "failed", ![t].error = err,
                                  ![t].invoked = task[t].agent \in Registered ]
         /\ log' = Published(log, t,
               << [ stage |-> task[t].agent \o ":start" ],
                  [ stage |-> task[t].agent \o ":error", error |-> err ] >>)
    /\ UNCHANGED << cnt, ttl, idem, pubsub, rc, client, thr, run >>

\* MessageBus.publish raises redis.ConnectionError at the ":start" event,
\* which is published before the try block: the task fails, nothing is
\* published and the worker is not looked up.
Task_BusDown(t) ==
    /\ task[t].state = "queued"
    /\ task' = [ task EXCEPT ![t].state = "failed",
                             ![t].error = "ConnectionError" ]
    /\ UNCHANGED << cnt, ttl, idem, pubsub, log, rc, client, thr, run >>

(***************************************************************************)
(* celery_orchestrator.speculative_race_on_redis                           *)
(***************************************************************************)
\* time is counted in get_message timeouts (1 s each); timeout_s in them
timeout_s == 2

MotionSlot(i) == IF i = 1 THEN "m1" ELSE IF i = 2 THEN "m2" ELSE "m3"

\* json.loads(msg["data"])
ParsesNever(msg) == FALSE
Parses(msg) == msg.kind = "json"

\* while time.time() - start < timeout_s:
RaceOpenAlways(elapsed) == TRUE
RaceOpen(elapsed) == elapsed < timeout_s

\* pubsub = redis.pubsub(...); pubsub.subscribe(channel)
Race_SubscribeLate(r) ==
    /\ run[r].pc = "race_sub"
    /\ run' = [ run EXCEPT
                  ![r].pc = IF run[r].agent_specs = << >>
                            THEN "race_loop" ELSE "race_launch",
                  ![r].li = 1, ![r].elapsed = 0, ![r].winner = << >> ]
    /\ UNCHANGED << cnt, ttl, idem, pubsub, log, rc, client, thr, task >>
Race_Subscribe(r) ==
    /\ run[r].pc = "race_sub"
    /\ pubsub' = [ pubsub EXCEPT ![r] = [ subscribed |-> TRUE, queue |-> << >> ] ]
    /\ run' = [ run EXCEPT
                  ![r].pc = IF run[r].agent_specs = << >>
                            THEN "race_loop" ELSE "race_launch",
                  ![r].li = 1, ![r].elapsed = 0, ![r].winner = << >> ]
    /\ UNCHANGED << cnt, ttl, idem, log, rc, client, thr, task >>

\* one turn of the launch loop; start = time.time() after the last one
Race_Launch(r) ==
    /\ run[r].pc = "race_launch"
    /\ LET i    == run[r].li
           spec == run[r].agent_specs[i]
           task_payload == Merge(run[r].spec_payload, [ _spec_id |-> r ])
       IN  /\ task' = [ task EXCEPT ![<< r, MotionSlot(i) >>] =
                          Queued(spec.name, task_payload, spec.reserved) ]
           /\ run' = [ run EXCEPT
                         ![r].li = i + 1,
                         ![r].elapsed = 0,
                         ![r].pc = IF i = Len(run[r].agent_specs)
                                   THEN "race_loop" ELSE "race_launch" ]
    /\ UNCHANGED << cnt, ttl, idem, pubsub, log, rc, client, thr >>

\* the loop condition
Race_Check(r) ==
    /\ run[r].pc = "race_loop"
    /\ run' = [ run EXCEPT ![r].pc =
                  IF RaceOpen(run[r].elapsed) THEN "race_poll" ELSE "race_end" ]
    /\ UNCHANGED << cnt, ttl, idem, pubsub, log, rc, client, thr, task >>

\* msg = pubsub.get_message(timeout=1) delivers a message
Race_Recv(r) ==
    /\ run[r].pc = "race_poll"
    /\ pubsub[r].queue # << >>
    /\ LET msg == Head(pubsub[r].queue)
       IN  run' = [ run EXCEPT
                      ![r].recvd = Append(@, msg),
                      ![r].winner = IF Parses(msg) THEN msg.obj ELSE @,
                      ![r].pc = IF Parses(msg) THEN "race_end" ELSE "race_loop" ]
    /\ pubsub' = [ pubsub EXCEPT ![r].queue = Tail(@) ]
    /\ UNCHANGED << cnt, ttl, idem, log, rc, client, thr, task >>

\* get_message returns None after its 1 s timeout
Race_PollTimeout(r) ==
    /\ run[r].pc = "race_poll"
    /\ pubsub[r].queue = << >>
    /\ run' = [ run EXCEPT ![r].pc = "race_loop",
                           ![r].elapsed = IF @ < timeout_s THEN @ + 1 ELSE @ ]
    /\ UNCHANGED << cnt, ttl, idem, pubsub, log, rc, client, thr, task >>

\* something other than run_agent_task publishes on the race channel a
\* text that json.loads rejects
MaxGarbage == 1
IsRaw(msg) == msg.kind = "raw"
Race_Garbage(r) ==
    /\ pubsub[r].subscribed
    /\ Len(SelectSeq(pubsub[r].queue \o run[r].recvd, IsRaw)) < MaxGarbage
    /\ pubsub' = [ pubsub EXCEPT ![r].queue = Append(@, [ kind |-> "raw" ]) ]
    /\ UNCHANGED << cnt, ttl, idem, log, rc, client, thr, run, task >>

RaceHandles(r) ==
    { << r, MotionSlot(i) >> : i \in 1..Len(run[r].agent_specs) }

LosersAll(r) == IF Truthy(run[r].winner) THEN RaceHandles(r) ELSE {}
Losers(r) ==
    IF Truthy(run[r].winner)
    THEN { h \in RaceHandles(r) : h # run[r].winner.task_id }
    ELSE {}

\* revoke the others, unsubscribe, return winner; errs are the handles
\* whose ar.revoke raised, which is passed over
RaceEnded(r, errs) ==
    /\ run[r].pc = "race_end"
    /\ task' = [ t \in TaskIds |->
                   IF t \in Losers(r)
                   THEN [ task[t] EXCEPT !.revoked = TRUE ]
                   ELSE task[t] ]
    /\ run' = [ run EXCEPT ![r].pc = "race_ret",
                           ![r].spec_winner = run[r].winner,
                           ![r].revoke_err = errs ]
    /\ pubsub' = [ pubsub EXCEPT ![r] = [ subscribed |-> FALSE, queue |-> << >> ] ]
    /\ UNCHANGED << cnt, ttl, idem, log, rc, client, thr >>

Race_End(r) == RaceEnded(r, {})

Race_EndRevokeFails(r) ==
    \E errs \in SUBSET Losers(r) \ {{}} : RaceEnded(r, errs)

(***************************************************************************)
(* celery_orchestrator.run_orchestration                                   *)
(***************************************************************************)
StageCaps(st) == IF st = "perc" THEN {"perception"} ELSE {"nl_generation"}
StageNoAgent(st) ==
    IF st = "perc" THEN "No perception agent available"
    ELSE "No prompt generator available"

\* except Exception as e: publish error; raise
RaisedSwallowed(r, l, err) ==
    /\ log' = Published(l, Orch(r), << [ stage |-> "error", error |-> err ] >>)
    /\ run' = run
Raised(r, l, err) ==
    /\ log' = Published(l, Orch(r), << [ stage |-> "error", error |-> err ] >>)
    /\ run' = [ run EXCEPT ![r].pc = "done",
                           ![r].ret = [ kind |-> "raised", error |-> err ] ]

Frames(spec_winner) ==
    IF Truthy(Get(spec_winner, "result", << >>))
    THEN Len(Get(spec_winner.result, "frames", << >>))
    ELSE 0

\* 4) Finalize
Finalized(r, l) ==
    LET frames == Frames(run[r].spec_winner)
    IN  /\ log' = Published(l, Orch(r),
              << [ stage |-> "completed", frames |-> frames ] >>)
        /\ run' = [ run EXCEPT ![r].pc = "done",
                      ![r].ret = [ kind |-> "ok", frames |-> frames ] ]

C_Start(r) ==
    /\ run[r].impl = "celery"
    /\ run[r].pc = "new"
    /\ log' = Published(log, Orch(r), << [ stage |-> "orchestration:started" ] >>)
    /\ run' = [ run EXCEPT ![r].pc = "gate" ]
    /\ UNCHANGED << cnt, ttl, idem, pubsub, rc, client, thr, task >>

\* MessageBus.publish raises at orchestration:started, before the try block
C_StartBusDown(r) ==
    /\ run[r].impl = "celery"
    /\ run[r].pc = "new"
    /\ run' = [ run EXCEPT ![r].pc = "done",
                  ![r].ret = [ kind |-> "raised", error |-> "ConnectionError" ] ]
    /\ UNCHANGED << cnt, ttl, idem, pubsub, log, rc, client, thr, task >>

\* what became of the run that wrote the record found by the read (kept for
\* the properties; the code does not look at it)
SeenRet(v) == IF v \in Req THEN run[v].ret.kind ELSE "none"

C_IdemReadRefresh(r) ==
    /\ run[r].impl = "celery"
    /\ run[r].pc = "gate"
    /\ LET key == idempotency_key(run[r].payload)
       IN  /\ idem' = [ idem EXCEPT ![key] = r ]
           /\ IF IdemHit(idem[key])
              THEN /\ log' = Published(log, Orch(r),
                        << [ stage |-> "skipped", reason |-> "idempotent" ] >>)
                   /\ run' = [ run EXCEPT ![r].pc = "done",
                                 ![r].seen = idem[key],
                                 ![r].ret = [ kind |-> "skipped" ] ]
              ELSE /\ run' = [ run EXCEPT ![r].pc = "perc_pick",
                                 ![r].seen = idem[key], ![r].wrote = TRUE ]
                   /\ log' = log
    /\ UNCHANGED << cnt, ttl, pubsub, rc, client, thr, task >>
\* a record whose writer has failed does not stop a new run
C_IdemReadRetry(r) ==
    /\ run[r].impl = "celery"
    /\ run[r].pc = "gate"
    /\ LET key == idempotency_key(run[r].payload)
       IN  IF IdemHit(idem[key]) /\ run[idem[key]].ret.kind # "raised"
           THEN /\ log' = Published(log, Orch(r),
                     << [ stage |-> "skipped", reason |-> "idempotent" ] >>)
                /\ run' = [ run EXCEPT ![r].pc = "done",
                              ![r].seen = idem[key],
                              ![r].seen_ret = SeenRet(idem[key]),
                              ![r].ret = [ kind |-> "skipped" ] ]
           ELSE /\ run' = [ run EXCEPT ![r].pc = "gate_set",
                              ![r].seen = idem[key] ]
                /\ log' = log
    /\ UNCHANGED << cnt, ttl, idem, pubsub, rc, client, thr, task >>
C_IdemRead(r) ==
    /\ run[r].impl = "celery"
    /\ run[r].pc = "gate"
    /\ LET key == idempotency_key(run[r].payload)
       IN  IF IdemHit(idem[key])
           THEN /\ log' = Published(log, Orch(r),
                     << [ stage |-> "skipped", reason |-> "idempotent" ] >>)
                /\ run' = [ run EXCEPT ![r].pc = "done",
                              ![r].seen = idem[key],
                              ![r].seen_ret = SeenRet(idem[key]),
                              ![r].ret = [ kind |-> "skipped" ] ]
           ELSE /\ run' = [ run EXCEPT ![r].pc = "gate_set",
                              ![r].seen = idem[key] ]
                /\ log' = log
    /\ UNCHANGED << cnt, ttl, idem, pubsub, rc, client, thr, task >>

\* redis.set(idem_key, task_id, ex=300)
C_IdemWrite(r) ==
    /\ run[r].impl = "celery"
    /\ run[r].pc = "gate_set"
    /\ idem' = [ idem EXCEPT ![idempotency_key(run[r].payload)] = r ]
    /\ run' = [ run EXCEPT ![r].pc = "perc_pick", ![r].wrote = TRUE ]
    /\ UNCHANGED << cnt, ttl, pubsub, log, rc, client, thr, task >>

StagePayload(r, st) ==
    IF st = "perc" THEN run[r].payload ELSE run[r].prompt_payload

\* router.pick_agent([...]) of a sequential stage
C_StagePick(r, st) ==
    /\ run[r].impl = "celery"
    /\ run[r].pc = st \o "_pick"
    /\ rc' = [ rc EXCEPT ![Orch(r)] = PickBegin(StageCaps(st)) ]
    /\ run' = [ run EXCEPT ![r].pc = st \o "_picking" ]
    /\ UNCHANGED << cnt, ttl, idem, pubsub, log, client, thr, task >>

\* if not agent: raise ...; ar = run_agent_task.apply_async(...)
C_StageLaunch(r, st) ==
    /\ run[r].impl = "celery"
    /\ run[r].pc = st \o "_picking"
    /\ rc[Orch(r)].pc = "ret"
    /\ rc' = [ rc EXCEPT ![Orch(r)] = IdleCall ]
    /\ IF rc[Orch(r)].name = None
       THEN /\ Raised(r, log, StageNoAgent(st))
            /\ task' = task
       ELSE /\ task' = [ task EXCEPT ![<< r, st >>] =
                           Queued(rc[Orch(r)].name, StagePayload(r, st),
                                  rc[Orch(r)].reserved) ]
            /\ run' = [ run EXCEPT ![r].pc = st \o "_wait" ]
            /\ log' = log
    /\ UNCHANGED << cnt, ttl, idem, pubsub, client, thr >>

\* res = ar.get(timeout=...) returns or re-raises the task's failure
C_StageGet(r, st) ==
    /\ run[r].impl = "celery"
    /\ run[r].pc = st \o "_wait"
    /\ task[<< r, st >>].state \in {"ok", "failed"}
    /\ IF task[<< r, st >>].state = "failed"
       THEN Raised(r, log, task[<< r, st >>].error)
       ELSE LET res == task[<< r, st >>].out
            IN  IF st = "perc"
                THEN /\ log' = Published(log, Orch(r),
                          << [ stage |-> "perception:done" ] >>)
                     /\ run' = [ run EXCEPT
                          ![r].pc = "prompt_pick",
                          ![r].perc_res = res,
                          ![r].prompt_payload =
                              Merge(run[r].payload, Get(res, "result", << >>)) ]
                ELSE /\ log' = Published(log, Orch(r),
                          << [ stage |-> "prompt:done" ] >>)
                     /\ run' = [ run EXCEPT ![r].pc = "m1_pick",
                                            ![r].prompt_res = res ]
    /\ UNCHANGED << cnt, ttl, idem, pubsub, rc, client, thr, task >>

\* ar.get(timeout=...) raises TimeoutError
C_StageTimeout(r, st) ==
    /\ run[r].impl = "celery"
    /\ run[r].pc = st \o "_wait"
    /\ task[<< r, st >>].state = "queued"
    /\ Raised(r, log, "TimeoutError")
    /\ UNCHANGED << cnt, ttl, idem, pubsub, rc, client, thr, task >>

\* primary_agent, primary_queue = router.pick_agent(["motion_generation"])
C_MotionPick(r) ==
    /\ run[r].impl = "celery"
    /\ run[r].pc = "m1_pick"
    /\ rc' = [ rc EXCEPT ![Orch(r)] = PickBegin({"motion_generation"}) ]
    /\ run' = [ run EXCEPT ![r].pc = "m1_picking" ]
    /\ UNCHANGED << cnt, ttl, idem, pubsub, log, client, thr, task >>

\* backup_agent, backup_queue = router.pick_agent(["motion_generation"])
C_MotionPickBackup(r) ==
    /\ run[r].impl = "celery"
    /\ run[r].pc = "m1_picking"
    /\ rc[Orch(r)].pc = "ret"
    /\ rc' = [ rc EXCEPT ![Orch(r)] = PickBegin({"motion_generation"}) ]
    /\ run' = [ run EXCEPT ![r].pc = "m2_picking", ![r].primary = rc[Orch(r)] ]
    /\ UNCHANGED << cnt, ttl, idem, pubsub, log, client, thr, task >>

Candidate(call) ==
    [ name |-> call.name, queue |-> call.queue, reserved |-> call.reserved ]

\* agent_specs, spec_payload, motion:speculative_start
C_MotionSpecs(r) ==
    /\ run[r].impl = "celery"
    /\ run[r].pc = "m2_picking"
    /\ rc[Orch(r)].pc = "ret"
    /\ rc' = [ rc EXCEPT ![Orch(r)] = IdleCall ]
    /\ LET primary == run[r].primary
           backup  == rc[Orch(r)]
           agent_specs ==
               (IF primary.name # None THEN << Candidate(primary) >> ELSE << >>)
               \o (IF /\ backup.name # None
                      /\ << backup.name, backup.queue >>
                           # << primary.name, primary.queue >>
                   THEN << Candidate(backup) >> ELSE << >>)
           result == Get(run[r].prompt_res, "result", << >>)
       IN  IF agent_specs = << >>
           THEN Raised(r, log, "No motion generator candidates available")
           ELSE /\ log' = Published(log, Orch(r),
                     << [ stage |-> "motion:speculative_start" ] >>)
                /\ run' = [ run EXCEPT
                     ![r].pc = "race_sub",
                     ![r].primary = IdleCall,
                     ![r].agent_specs = agent_specs,
                     ![r].spec_payload = [ prompt |-> Get(result, "prompt", None) ] ]
    /\ UNCHANGED << cnt, ttl, idem, pubsub, client, thr, task >>

\* RuntimeError raised after a race without winner
MotionFailedErrorSame == "No motion generator candidates available"
MotionFailedError == "Motion generation failed (no speculative winner)"

\* if not spec_winner: motion:failed, raise; else motion:done
C_MotionDone(r) ==
    /\ run[r].impl = "celery"
    /\ run[r].pc = "race_ret"
    /\ IF ~Truthy(run[r].spec_winner)
       THEN Raised(r, Published(log, Orch(r), << [ stage |-> "motion:failed" ] >>),
                   MotionFailedError)
       ELSE /\ log' = Published(log, Orch(r), << [ stage |-> "motion:done" ] >>)
            /\ run' = [ run EXCEPT ![r].pc = "val_choose" ]
    /\ UNCHANGED << cnt, ttl, idem, pubsub, rc, client, thr, task >>

ValSlot(i) == IF i = 1 THEN "v1" ELSE "v2"

\* validators = [...]; group(...).apply_async(), or validators:skipped
C_Validators(r) ==
    /\ run[r].impl = "celery"
    /\ run[r].pc = "val_choose"
    /\ LET validators == choose_agents_for_capability({"validation", "scoring"})
       IN  IF validators # << >>
           THEN /\ task' = [ t \in TaskIds |->
                     IF \E i \in 1..Len(validators) : t = << r, ValSlot(i) >>
                     THEN LET i == CHOOSE i \in 1..Len(validators) :
                                       t = << r, ValSlot(i) >>
                          IN  Queued(validators[i],
                                     Get(run[r].spec_winner, "result", << >>),
                                     FALSE)
                     ELSE task[t] ]
                /\ run' = [ run EXCEPT ![r].pc = "val_wait",
                                       ![r].validators = validators ]
                /\ log' = log
           ELSE /\ Finalized(r, Published(log, Orch(r),
                     << [ stage |-> "validators:skipped" ] >>))
                /\ task' = task
    /\ UNCHANGED << cnt, ttl, idem, pubsub, rc, client, thr >>

ValHandles(r) == { << r, ValSlot(i) >> : i \in 1..Len(run[r].validators) }

\* val_results = val_group.get(timeout=20): every validator returned
C_ValGet(r) ==
    /\ run[r].impl = "celery"
    /\ run[r].pc = "val_wait"
    /\ \A t \in ValHandles(r) : task[t].state = "ok"
    /\ Finalized(r, Published(log, Orch(r), << [ stage |-> "validators:done" ] >>))
    /\ UNCHANGED << cnt, ttl, idem, pubsub, rc, client, thr, task >>

\* val_group.get re-raises a validator's failure, or raises TimeoutError
\* (or the task's soft time limit ends the wait)
C_ValRaise(r) ==
    /\ run[r].impl = "celery"
    /\ run[r].pc = "val_wait"
    /\ \/ \E t \in ValHandles(r) :
            /\ task[t].state = "failed"
            /\ Raised(r, log, task[t].error)
       \/ /\ \E t \in ValHandles(r) : task[t].state = "queued"
          /\ \E err \in {"TimeoutError", "SoftTimeLimitExceeded"} :
               Raised(r, log, err)
    /\ UNCHANGED << cnt, ttl, idem, pubsub, rc, client, thr, task >>

\* the record's 300 s expiry runs out
IdemExpire(key) ==
    /\ idem[key] # None
    /\ run[idem[key]].pc = "done"
    /\ idem' = [ idem EXCEPT ![key] = None ]
    /\ UNCHANGED << cnt, ttl, pubsub, log, rc, client, thr, run, task >>

(***************************************************************************)
(* orchestrator.Orchestrator                                               *)
(***************************************************************************)
RunOf(t) == t[1]
RoleOf(t) == t[2]

\* isinstance(spec, str)
IsName(spec) == "name" \in DOMAIN spec

IsFan(t) == RoleOf(t) \in {"v1", "v2", "v3"}

\* with lock: results.append(entry)   /   results[role] = entry
Collected(r, t, fan_entry, race_entry) ==
    IF IsFan(t)
    THEN [ run EXCEPT ![r].val_list = Append(@, fan_entry) ]
    ELSE [ run EXCEPT ![r].results = Merge(@, [ k \in {RoleOf(t)} |-> race_entry ]) ]

\* run_and_collect / run_agent: what _run_agent_sync returned or raised is
\* stored by the thread as soon as the call ends
Ended(t, how) == IF t \in Threads THEN "done" ELSE how

Raise_Collected(t, err) ==
    IF t \in Threads
    THEN Collected(RunOf(t), t, [ agent |-> thr[t].agent, error |-> err ],
                   [ error |-> err ])
    ELSE run

\* _run_agent_sync up to agent.execute: get_agent, config, start event
Sync_Start(t) ==
    /\ thr[t].pc = "sync"
    /\ IF thr[t].agent \in Registered
       THEN /\ log' = PublishedAs(log, t, Orch(RunOf(t)),
                 << [ stage |-> thr[t].agent \o ":start" ] >>)
            /\ thr' = [ thr EXCEPT ![t].pc = "exec" ]
            /\ run' = run
       ELSE /\ thr' = [ thr EXCEPT ![t].pc = Ended(t, "raised"),
                                   ![t].err = "Unknown agent" ]
            /\ run' = Raise_Collected(t, "Unknown agent")
            /\ log' = log
    /\ UNCHANGED << cnt, ttl, idem, pubsub, rc, client, task >>

\* finally: self.router.release_slot(agent_name)
Released(c, w) == [ c EXCEPT ![w] = @ - 1 ]

\* agent.execute returned: done event, release, return res
Sync_Ok(t) ==
    /\ thr[t].pc = "exec"
    /\ \E result \in WorkerResults(thr[t].agent) :
         LET agent == thr[t].agent
             res   == [ agent |-> agent, result |-> result ]
         IN  /\ log' = PublishedAs(log, t, Orch(RunOf(t)),
                   << [ stage |-> agent \o ":done", agent |-> agent ] >>)
             /\ cnt' = Released(cnt, agent)
             /\ thr' = [ thr EXCEPT ![t].pc = Ended(t, "returned"),
                                    ![t].res = res, ![t].released = @ + 1 ]
             /\ run' = IF t \in Threads
                       THEN Collected(RunOf(t), t, res, res) ELSE run
    /\ UNCHANGED << ttl, idem, pubsub, rc, client, task >>

\* agent.execute raised: release, propagate
Sync_Raise(t) ==
    /\ thr[t].pc = "exec"
    /\ cnt' = Released(cnt, thr[t].agent)
    /\ thr' = [ thr EXCEPT ![t].pc = Ended(t, "raised"),
                           ![t].err = "worker_error", ![t].released = @ + 1 ]
    /\ run' = Raise_Collected(t, "worker_error")
    /\ UNCHANGED << ttl, idem, pubsub, log, rc, client, task >>

\* a thread of fan_out_fan_in or speculative_first_response resolves its spec
Thread_Begin(t) ==
    /\ thr[t].pc = "begin"
    /\ IF IsName(thr[t].spec)
       THEN /\ thr' = [ thr EXCEPT ![t].pc = "sync", ![t].agent = thr[t].spec.name ]
            /\ rc' = rc
       ELSE /\ thr' = [ thr EXCEPT ![t].pc = "picking" ]
            /\ rc' = [ rc EXCEPT ![t] = PickBegin(thr[t].spec.caps) ]
    /\ UNCHANGED << cnt, ttl, idem, pubsub, log, client, run, task >>

\* pick_agent returned to the thread
Thread_Picked(t) ==
    /\ thr[t].pc = "picking"
    /\ rc[t].pc = "ret"
    /\ rc' = [ rc EXCEPT ![t] = IdleCall ]
    /\ IF rc[t].name = None
       THEN /\ thr' = [ thr EXCEPT ![t].pc = "done" ]
            /\ run' = Collected(RunOf(t), t,
                                [ agent |-> None, error |-> "no_agent" ],
                                [ error |-> "no_agent" ])
       ELSE /\ thr' = [ thr EXCEPT ![t].pc = "sync", ![t].agent = rc[t].name,
                                   ![t].reserved = rc[t].reserved ]
            /\ run' = run
    /\ UNCHANGED << cnt, ttl, idem, pubsub, log, client, task >>

FanRole(i) == IF i = 1 THEN "v1" ELSE IF i = 2 THEN "v2" ELSE "v3"

FanThreads(r) == { << r, FanRole(i) >> : i \in 1..Len(run[r].fan_specs) }

Started(spec, payload) ==
    [ NoThread EXCEPT !.pc = "begin", !.spec = spec, !.payload = payload ]

\* fan_out_fan_in: results = [], one thread per spec
Fan_Start(r) ==
    /\ run[r].pc = "fan_start"
    /\ thr' = [ t \in SyncCallers |->
                  IF t \in FanThreads(r)
                  THEN LET i == CHOOSE i \in 1..Len(run[r].fan_specs) :
                                    t = << r, FanRole(i) >>
                       IN  Started(run[r].fan_specs[i], run[r].motion_result)
                  ELSE thr[t] ]
    /\ run' = [ run EXCEPT ![r].pc = "fan_join", ![r].val_list = << >> ]
    /\ UNCHANGED << cnt, ttl, idem, pubsub, log, rc, client, task >>

Alive(r) == { t \in FanThreads(r) : thr[t].pc # "done" }

\* what fan_out_fan_in hands back once the joins are over
FanReturned(results, alive) == results

\* every join has returned (all threads ended, or timeout_s ran out):
\* a timeout event per thread still alive, return results
Fan_Return(r) ==
    /\ run[r].pc = "fan_join"
    /\ log' = Published(log, Orch(r),
          [ i \in 1..Cardinality(Alive(r)) |-> [ stage |-> "timeout" ] ])
    /\ run' = [ run EXCEPT ![r].pc = "fan_ret",
                           ![r].val_returned = FanReturned(run[r].val_list, Alive(r)) ]
    /\ UNCHANGED << cnt, ttl, idem, pubsub, rc, client, task, thr >>

RaceThreads(r) == { << r, "primary" >>, << r, "backup" >> }

\* timeout_s of speculative_first_response, counted in sleeps of the loop
first_response_timeout == 2

\* speculative_first_response: results = {}, t1.start(); t2.start()
First_Start(r) ==
    /\ run[r].pc = "first_start"
    /\ LET payload == [ prompt |-> Get(run[r].data, "prompt", None) ]
           spec    == [ caps |-> {"motion_generation"} ]
       IN  thr' = [ t \in SyncCallers |->
                      IF t \in RaceThreads(r) THEN Started(spec, payload)
                      ELSE thr[t] ]
    /\ run' = [ run EXCEPT ![r].pc = "first_loop", ![r].results = << >>,
                           ![r].elapsed = 0, ![r].winner = << >> ]
    /\ UNCHANGED << cnt, ttl, idem, pubsub, log, rc, client, task >>

Succeeded(results, role) ==
    role \in DOMAIN results /\ "error" \notin DOMAIN results[role]

FirstWinner(results) ==
    IF Succeeded(results, "primary")
    THEN [ role |-> "primary", res |-> results["primary"] ]
    ELSE IF Succeeded(results, "backup")
    THEN [ role |-> "backup", res |-> results["backup"] ]
    ELSE << >>

\* one turn of the wait loop, or the check after it
First_Poll(r) ==
    /\ run[r].pc = "first_loop"
    /\ LET winner == FirstWinner(run[r].results)
       IN  run' = IF run[r].elapsed < first_response_timeout /\ ~Truthy(winner)
                  THEN [ run EXCEPT ![r].elapsed = @ + 1 ]
                  ELSE [ run EXCEPT ![r].pc = "first_ret", ![r].winner = winner ]
    /\ UNCHANGED << cnt, ttl, idem, pubsub, log, rc, client, task, thr >>

(***************************************************************************)
(* tasks.run_orchestration and Orchestrator.pipeline                       *)
(***************************************************************************)
seq == << {"perception"}, {"nl_generation"} >>

\* except Exception as e: publish error; raise
L_Raised(r, l, err) ==
    /\ log' = Published(l, Orch(r), << [ stage |-> "error", error |-> err ] >>)
    /\ run' = [ run EXCEPT ![r].pc = "done",
                           ![r].ret = [ kind |-> "raised", error |-> err ] ]

\* except SoftTimeLimitExceeded: publish timed_out; raise
L_TimedOut(r, l) ==
    /\ log' = Published(l, Orch(r), << [ stage |-> "timed_out" ] >>)
    /\ run' = [ run EXCEPT ![r].pc = "done",
                  ![r].ret = [ kind |-> "raised", error |-> "SoftTimeLimitExceeded" ] ]

L_IdemRead(r) ==
    /\ run[r].impl = "local"
    /\ run[r].pc = "new"
    /\ LET key == idempotency_key(run[r].payload)
       IN  IF IdemHit(idem[key])
           THEN /\ log' = Published(log, Orch(r),
                     << [ stage |-> "skipped", reason |-> "idempotent" ] >>)
                /\ run' = [ run EXCEPT ![r].pc = "done",
                              ![r].seen = idem[key],
                              ![r].seen_ret = SeenRet(idem[key]),
                              ![r].ret = [ kind |-> "skipped" ] ]
           ELSE /\ run' = [ run EXCEPT ![r].pc = "gate_set",
                              ![r].seen = idem[key] ]
                /\ log' = log
    /\ UNCHANGED << cnt, ttl, idem, pubsub, rc, client, task, thr >>

\* r.set(idempotency_key, task_id, ex=300); pipeline: data = initial_payload
L_IdemWrite(r) ==
    /\ run[r].impl = "local"
    /\ run[r].pc = "gate_set"
    /\ idem' = [ idem EXCEPT ![idempotency_key(run[r].payload)] = r ]
    /\ run' = [ run EXCEPT ![r].pc = "pipe", ![r].wrote = TRUE,
                           ![r].step = 1, ![r].data = run[r].payload ]
    /\ UNCHANGED << cnt, ttl, pubsub, log, rc, client, task, thr >>

\* pipeline: agent_name, _ = self.router.pick_agent(step)
Pipe_Pick(r) ==
    /\ run[r].pc = "pipe"
    /\ rc' = [ rc EXCEPT ![Orch(r)] = PickBegin(seq[run[r].step]) ]
    /\ run' = [ run EXCEPT ![r].pc = "pipe_picking" ]
    /\ UNCHANGED << cnt, ttl, idem, pubsub, log, client, task, thr >>

\* pipeline: if not agent_name: raise; else enter _run_agent_sync
Pipe_Run(r) ==
    /\ run[r].pc = "pipe_picking"
    /\ rc[Orch(r)].pc = "ret"
    /\ rc' = [ rc EXCEPT ![Orch(r)] = IdleCall ]
    /\ IF rc[Orch(r)].name = None
       THEN /\ L_Raised(r, log, "No agent found")
            /\ thr' = thr
       ELSE /\ thr' = [ thr EXCEPT ![Orch(r)] =
                          [ NoThread EXCEPT !.pc = "sync",
                                            !.agent = rc[Orch(r)].name,
                                            !.payload = run[r].data,
                                            !.reserved = rc[Orch(r)].reserved ] ]
            /\ run' = [ run EXCEPT ![r].pc = "pipe_sync" ]
            /\ log' = log
    /\ UNCHANGED << cnt, ttl, idem, pubsub, client, task >>

\* pipeline after _run_agent_sync: merge and go on, or publish error and
\* raise into run_orchestration's handler
Pipe_Next(r) ==
    /\ run[r].pc = "pipe_sync"
    /\ thr[Orch(r)].pc \in {"returned", "raised"}
    /\ IF thr[Orch(r)].pc = "raised"
       THEN L_Raised(r, Published(log, Orch(r),
                         << [ stage |-> "error", error |-> thr[Orch(r)].err ] >>),
                     thr[Orch(r)].err)
       ELSE /\ run' = [ run EXCEPT
                 ![r].data = Merge(@, Get(thr[Orch(r)].res, "result", << >>)),
                 ![r].perc_res = IF run[r].step = 1 THEN thr[Orch(r)].res ELSE @,
                 ![r].step = @ + 1,
                 ![r].pc = IF run[r].step = Len(seq) THEN "first_start" ELSE "pipe" ]
            /\ log' = log
    /\ thr' = [ thr EXCEPT ![Orch(r)].pc = "done" ]
    /\ UNCHANGED << cnt, ttl, idem, pubsub, rc, client, task >>

\* the task's soft_time_limit=120 runs out inside agent.execute: release,
\* pipeline's error event, then run_orchestration's timed_out
L_SoftLimitExec(r) ==
    /\ run[r].impl = "local"
    /\ run[r].pc = "pipe_sync"
    /\ thr[Orch(r)].pc = "exec"
    /\ cnt' = Released(cnt, thr[Orch(r)].agent)
    /\ thr' = [ thr EXCEPT ![Orch(r)].pc = "done", ![Orch(r)].released = @ + 1,
                           ![Orch(r)].err = "SoftTimeLimitExceeded" ]
    /\ L_TimedOut(r, Published(log, Orch(r),
           << [ stage |-> "error", error |-> "SoftTimeLimitExceeded" ] >>))
    /\ UNCHANGED << ttl, idem, pubsub, rc, client, task >>

\* the soft time limit runs out while the main thread sleeps or joins
L_SoftLimitWait(r) ==
    /\ run[r].impl = "local"
    /\ run[r].pc \in {"first_loop", "fan_join"}
    /\ L_TimedOut(r, log)
    /\ UNCHANGED << cnt, ttl, idem, pubsub, rc, client, task, thr >>

\* winner -> motion_selected and the validators; none -> motion_failed
L_MotionDone(r) ==
    /\ run[r].impl = "local"
    /\ run[r].pc = "first_ret"
    /\ IF Truthy(run[r].winner)
       THEN /\ log' = Published(log, Orch(r),
                 << [ stage |-> "motion_selected", role |-> run[r].winner.role ] >>)
            /\ run' = [ run EXCEPT
                 ![r].pc = "fan_start",
                 ![r].motion_result = Get(run[r].winner.res, "result", << >>),
                 ![r].fan_specs = << [ name |-> "validator" ] >> ]
       ELSE L_Raised(r, Published(log, Orch(r), << [ stage |-> "motion_failed" ] >>),
                     "Motion generation failed")
    /\ UNCHANGED << cnt, ttl, idem, pubsub, rc, client, task, thr >>

\* validators_done, completed, return
L_Finish(r) ==
    /\ run[r].impl = "local"
    /\ run[r].pc = "fan_ret"
    /\ LET frames == Len(Get(run[r].motion_result, "frames", << >>))
       IN  /\ log' = Published(log, Orch(r),
                 << [ stage |-> "validators_done", validators |-> run[r].val_list ],
                    [ stage |-> "completed", frames |-> frames ] >>)
           /\ run' = [ run EXCEPT ![r].pc = "done",
                         ![r].ret = [ kind |-> "ok", frames |-> frames ] ]
    /\ UNCHANGED << cnt, ttl, idem, pubsub, rc, client, task, thr >>

(***************************************************************************)
(* Specifications                                                          *)
(***************************************************************************)
\* the counters when held slots of w are still taken by earlier invocations
InitCounters(w, held) ==
    /\ cnt = [ v \in Workers |-> IF v = w THEN held ELSE 0 ]
    /\ ttl = [ v \in Workers |-> v = w /\ held > 0 ]

InitStore ==
    /\ rc = [ c \in Callers |-> IdleCall ]
    /\ idem = [ k \in IdemKeys |-> None ]
    /\ pubsub = [ r \in Req |-> [ subscribed |-> FALSE, queue |-> << >> ] ]
    /\ log = [ t \in TaskIds \cup Threads |-> << >> ]
    /\ task = [ t \in TaskIds |-> NoTask ]
    /\ client = [ c \in Clients |-> [ pc |-> "idle", w |-> "" ] ]
    /\ thr = [ t \in SyncCallers |-> NoThread ]

InitLedger ==
    /\ InitStore
    /\ InitCounters("micro_detector", 0)
    /\ run = [ r \in Req |-> NewRun("none", << >>) ]

NextLedger ==
    \/ \E c \in Clients, w \in LedgerWorkers : ClientReserve(c, w)
    \/ \E c \in Clients : RouterIncr(c) /\ UNCHANGED << client, thr, orchVars >>
    \/ \E c \in Clients : RouterUndo(c) /\ UNCHANGED << client, thr, orchVars >>
    \/ \E c \in Clients : ClientReturn(c)
    \/ \E c \in Clients : ClientRelease(c)
    \/ \E w \in LedgerWorkers : CounterExpire(w) /\ UNCHANGED << client, thr, orchVars >>

SpecLedger == InitLedger /\ [][NextLedger]_vars

\* concurrent callers of pick_agent
RouterNext(c) ==
    /\ RouterCapOk(c) \/ RouterIncr(c) \/ RouterUndo(c)
    /\ UNCHANGED << client, thr, orchVars >>

NextRouter ==
    \/ \E c \in Clients, caps \in PickCaps : ClientPick(c, caps)
    \/ \E c \in Clients : RouterNext(c)
    \/ \E c \in Clients : ClientPicked(c)
    \/ \E c \in Clients : ClientRelease(c)

SpecRouter == InitLedger /\ [][NextRouter]_vars

\* two callers of pick_agent and reserve_slot while Redis comes and goes
DownClients == { << "c1", "client" >>, << "c2", "client" >> }
DownCaps == { {"motion_generation"}, {"rendering"} }

NextDown ==
    \/ \E c \in DownClients, caps \in DownCaps : ClientPickDown(c, caps)
    \/ \E c \in DownClients, w \in LedgerWorkers : ClientReserveDown(c, w)
    \/ \E c \in DownClients, caps \in DownCaps : ClientPick(c, caps)
    \/ \E c \in DownClients : RouterNext(c)
    \/ \E c \in DownClients : RouterDown(c) /\ UNCHANGED << client, thr, orchVars >>
    \/ \E c \in DownClients : ClientPicked(c)
    \/ \E c \in DownClients : ClientReturn(c)
    \/ \E c \in DownClients : ClientRelease(c)

SpecDown == InitLedger /\ [][NextDown]_vars

\* two callers of reserve_slot that may die; Redis runs the expiry of a key
\* that has one, and a call under way goes on unless its process died
LedgerStep(c) ==
    /\ RouterIncr(c) \/ RouterUndo(c)
    /\ UNCHANGED << client, thr, orchVars >>

Expiry(w) == CounterExpire(w) /\ UNCHANGED << client, thr, orchVars >>

NextHeal ==
    \/ \E c \in DownClients, w \in LedgerWorkers : ClientReserve(c, w)
    \/ \E c \in DownClients : LedgerStep(c)
    \/ \E c \in DownClients : ClientReturn(c)
    \/ \E c \in DownClients : ClientRelease(c)
    \/ \E c \in DownClients : HolderCrash(c)
    \/ \E w \in LedgerWorkers : Expiry(w)

SpecHeal ==
    /\ InitLedger /\ [][NextHeal]_vars
    /\ \A w \in LedgerWorkers : WF_vars(Expiry(w))
    /\ \A c \in DownClients : WF_vars(LedgerStep(c))

Init ==
    /\ InitStore
    /\ InitCounters("micro_detector", 0)
    /\ \E p \in {PayloadA, PayloadB} :
         run = [ r \in Req |-> NewRun("celery", IF r = "r1" THEN PayloadA ELSE p) ]

Stages == {"perc", "prompt"}

Next ==
    \/ \E r \in Req : C_Start(r)
    \/ \E r \in Req : C_IdemRead(r)
    \/ \E r \in Req : C_IdemWrite(r)
    \/ \E r \in Req, st \in Stages : C_StagePick(r, st)
    \/ \E r \in Req, st \in Stages : C_StageLaunch(r, st)
    \/ \E r \in Req, st \in Stages : C_StageGet(r, st)
    \/ \E r \in Req, st \in Stages : C_StageTimeout(r, st)
    \/ \E r \in Req : C_MotionPick(r)
    \/ \E r \in Req : C_MotionPickBackup(r)
    \/ \E r \in Req : C_MotionSpecs(r)
    \/ \E r \in Req : Race_Subscribe(r)
    \/ \E r \in Req : Race_Launch(r)
    \/ \E r \in Req : Race_Check(r)
    \/ \E r \in Req : Race_Recv(r)
    \/ \E r \in Req : Race_PollTimeout(r)
    \/ \E r \in Req : Race_End(r)
    \/ \E r \in Req : C_MotionDone(r)
    \/ \E r \in Req : C_Validators(r)
    \/ \E r \in Req : C_ValGet(r)
    \/ \E r \in Req : C_ValRaise(r)
    \/ \E t \in TaskIds : Task_Ok(t)
    \/ \E t \in TaskIds : Task_Fail(t)
    \/ \E r \in Req : RouterNext(Orch(r))
    \/ \E k \in IdemKeys : IdemExpire(k)

SyncNext(t) ==
    \/ Sync_Start(t)
    \/ Sync_Ok(t)
    \/ Sync_Raise(t)

ThreadNext(t) ==
    \/ Thread_Begin(t)
    \/ Thread_Picked(t)

\* the in-process orchestration is exercised with r1 and a duplicate r2 of
\* the same payload that is submitted once r1 has stored its record and
\* within the record's 300 s lifetime; the perception worker is free or its
\* only slot is still held by an earlier invocation
InitLocal ==
    /\ InitStore
    /\ \E held \in {0, MaxConcurrency("micro_detector")} :
         InitCounters("micro_detector", held)
    /\ run = [ r \in Req |-> NewRun("local", PayloadA) ]

Submitted(r) == r = "r1" \/ run["r1"].wrote

NextLocal ==
    \/ \E r \in Req : Submitted(r) /\ L_IdemRead(r)
    \/ \E r \in Req : L_IdemWrite(r)
    \/ \E r \in Req : Pipe_Pick(r)
    \/ \E r \in Req : Pipe_Run(r)
    \/ \E r \in Req : Pipe_Next(r)
    \/ \E r \in Req : L_SoftLimitExec(r)
    \/ \E r \in Req : L_SoftLimitWait(r)
    \/ \E r \in Req : First_Start(r)
    \/ \E r \in Req : First_Poll(r)
    \/ \E r \in Req : L_MotionDone(r)
    \/ \E r \in Req : Fan_Start(r)
    \/ \E r \in Req : Fan_Return(r)
    \/ \E r \in Req : L_Finish(r)
    \/ \E t \in SyncCallers : SyncNext(t)
    \/ \E t \in Threads : ThreadNext(t)
    \/ \E c \in SyncCallers : RouterNext(c)

SpecLocal == InitLocal /\ [][NextLocal]_vars

\* The in-process orchestration is a running Celery task: its own steps,
\* its threads' steps up to the call of agent.execute, its sleeps and joins
\* and the soft time limit are taken whenever they stay possible.  Whether
\* agent.execute ever returns (Sync_Ok, Sync_Raise) is left open.
OrchStep(r) ==
    \/ Submitted(r) /\ L_IdemRead(r)
    \/ L_IdemWrite(r) \/ Pipe_Pick(r) \/ Pipe_Run(r) \/ Pipe_Next(r)
    \/ L_SoftLimitExec(r) \/ L_SoftLimitWait(r)
    \/ First_Start(r) \/ First_Poll(r) \/ L_MotionDone(r)
    \/ Fan_Start(r) \/ Fan_Return(r) \/ L_Finish(r)

LiveLocal ==
    /\ InitLocal /\ [][NextLocal]_vars
    /\ \A r \in Req : WF_vars(OrchStep(r))
    /\ \A t \in SyncCallers : WF_vars(Sync_Start(t)) /\ WF_vars(RouterNext(t))
    /\ \A t \in Threads : WF_vars(ThreadNext(t))

Spec == Init /\ [][Next]_vars

\* The race coordinator is a running worker process: its loop test, its
\* get_message call (which returns within 1 s) and its return are taken
\* whenever they stay possible.
RaceStep(r) ==
    Race_Check(r) \/ Race_Recv(r) \/ Race_PollTimeout(r) \/ Race_End(r)

\* two requests of the same payload, submitted at any time
InitLive ==
    /\ InitStore
    /\ InitCounters("micro_detector", 0)
    /\ run = [ r \in Req |-> NewRun("celery", PayloadA) ]

LiveSpec == InitLive /\ [][Next]_vars /\ \A r \in Req : WF_vars(RaceStep(r))

\* one Celery orchestration while the events channel may be unavailable
InitBus ==
    /\ InitStore
    /\ InitCounters("micro_detector", 0)
    /\ run = [ r \in Req |->
                IF r = "r1" THEN NewRun("celery", PayloadA) ELSE NewRun("none", << >>) ]

NextBus ==
    \/ Next
    \/ \E t \in TaskIds : Task_BusDown(t)
    \/ \E r \in Req : C_StartBusDown(r)

SpecBus == InitBus /\ [][NextBus]_vars

\* one Celery orchestration under an agents.yaml that may lack the workers
\* of one stage
Catalogs ==
    { Workers,
      Workers \ {"micro_detector", "perception_alt"},
      Workers \ {"prompt_generator"},
      Workers \ {"motion_generator", "motion_backup"} }

InitCatalog ==
    /\ InitStore
    /\ \E listed \in Catalogs :
         /\ cnt = [ v \in listed |-> 0 ]
         /\ ttl = [ v \in listed |-> FALSE ]
    /\ run = [ r \in Req |->
                IF r = "r1" THEN NewRun("celery", PayloadA) ELSE NewRun("none", << >>) ]

SpecCatalog == InitCatalog /\ [][Next]_vars

\* speculative_race_on_redis called on its own: with no candidate, with the
\* same worker twice, and with three candidates
RaceSpecs ==
    LET gen == [ name |-> "motion_generator", queue |-> "gpu", reserved |-> FALSE ]
        bak == [ name |-> "motion_backup", queue |-> "gpu_backup", reserved |-> FALSE ]
    IN  { << >>, << gen, gen >>, << gen, bak, gen >> }

InitRace ==
    /\ InitStore
    /\ InitCounters("micro_detector", 0)
    /\ \E specs \in RaceSpecs :
         run = [ r \in Req |->
                   IF r = "r1"
                   THEN [ NewRun("race", << >>) EXCEPT
                            !.pc = "race_sub", !.agent_specs = specs,
                            !.spec_payload = [ prompt |-> "p" ] ]
                   ELSE NewRun("none", << >>) ]

NextRace ==
    \/ \E r \in Req : Race_Subscribe(r)
    \/ \E r \in Req : Race_Launch(r)
    \/ \E r \in Req : Race_Check(r)
    \/ \E r \in Req : Race_Recv(r)
    \/ \E r \in Req : Race_PollTimeout(r)
    \/ \E r \in Req : Race_End(r)
    \/ \E r \in Req : Race_EndRevokeFails(r)
    \/ \E r \in Req : Race_Garbage(r)
    \/ \E t \in TaskIds : Task_Ok(t)
    \/ \E t \in TaskIds : Task_Fail(t)

SpecRace == InitRace /\ [][NextRace]_vars

\* fan_out_fan_in called on its own with two specs, a worker name and a
\* capability list
FanSpecs == << [ name |-> "validator" ], [ caps |-> {"scoring"} ] >>

\* ... or with three: two capability lists and a worker name between them
FanSpecsMixed ==
    << [ caps |-> {"perception"} ], [ name |-> "micro_detector" ],
       [ caps |-> {"perception"} ] >>

InitFan ==
    /\ InitStore
    /\ \E w \in {"validator", "scorer"}, held \in 0..1 : InitCounters(w, held)
    /\ \E specs \in {FanSpecs, FanSpecsMixed} :
         run = [ r \in Req |->
                IF r = "r1"
                THEN [ NewRun("fan", << >>) EXCEPT
                         !.pc = "fan_start", !.fan_specs = specs,
                         !.motion_result = [ frames |-> << "f1", "f2" >> ] ]
                ELSE NewRun("none", << >>) ]

NextFan ==
    \/ \E r \in Req : Fan_Start(r)
    \/ \E r \in Req : Fan_Return(r)
    \/ \E t \in Threads : SyncNext(t)
    \/ \E t \in Threads : ThreadNext(t)
    \/ \E t \in Threads : RouterNext(t)

SpecFan == InitFan /\ [][NextFan]_vars

\* both implementations of run_orchestration
InitBoth == Init \/ InitLocal

NextBoth ==
    \/ (\A r \in Req : run[r].impl = "celery") /\ Next
    \/ (\A r \in Req : run[r].impl = "local") /\ NextLocal

SpecBoth == InitBoth /\ [][NextBoth]_vars

\* reserve_slot calls on w that have incremented past the ceiling and not
\* yet decremented
Uncorrected(w) == { c \in Callers : rc[c].pc = "undo" /\ rc[c].w = w }

ReserveInProgress(w) == \E c \in Callers : rc[c].pc \in {"incr", "undo"} /\ rc[c].w = w

\* C2: under every interleaving of reserve_slot and matched release_slot
\* calls the counter of a worker exceeds max_concurrency by at most the
\* number of reserve_slot calls that incremented and have not yet made
\* their compensating decrement, and is within max_concurrency whenever no
\* reserve_slot call is in progress.
C2_Overshoot ==
    \A w \in Workers :
        /\ cnt[w] <= MaxConcurrency(w) + Cardinality(Uncorrected(w))
        /\ ~ReserveInProgress(w) => cnt[w] <= MaxConcurrency(w)

C2_Witness ==
    \E w \in Workers :
        /\ cnt[w] = MaxConcurrency(w) + 2
        /\ Cardinality(Uncorrected(w)) = 2

\* Task Runner invocations made for a worker that pick_agent handed out
PickSlots == {"perc", "prompt", "m1", "m2"}

PickedTasks == { t \in TaskIds : t[2] \in PickSlots /\ task[t].state \in {"ok", "failed"} }

PickedSyncs ==
    { t \in SyncCallers :
        /\ thr[t].pc \in {"returned", "raised", "done"}
        /\ thr[t].agent # None
        /\ t \in Threads => ~IsName(thr[t].spec) }

Held(reserved) == IF reserved THEN 1 ELSE 0

\* C1: once a Task Runner invocation for a worker handed out by pick_agent
\* has completed (returned, raised, or met an unregistered name), what it
\* added to the worker's counter since just before pick_agent has been
\* taken back: its net contribution is zero, under Celery and in-process.
C1_SlotReleased ==
    /\ \A t \in PickedTasks : Held(task[t].reserved) - task[t].released = 0
    /\ \A t \in PickedSyncs : Held(thr[t].reserved) - thr[t].released = 0

\* C3: whatever pick_agent, reserve_slot, release_slot and Task Runner
\* invocations have run (workers named explicitly without a reservation
\* included), the capacity counter of every worker is at least 0.
C3_NonNegative == \A w \in Workers : cnt[w] >= 0

SameKey(a, b) == idempotency_key(run[a].payload) = idempotency_key(run[b].payload)

\* C4: of two requests with the same (match_id, round), when the read of
\* one returns the record the other has written, the reader returns
\* {skipped: true} without writing or running the pipeline and the writer
\* is the one that runs it.
C4_SecondSkips ==
    \A a \in Req : \A b \in Req \ {a} :
        (SameKey(a, b) /\ run[b].seen = a) =>
            /\ run[b].pc = "done"
            /\ run[b].ret = [ kind |-> "skipped" ]
            /\ ~run[b].wrote
            /\ run[a].wrote
            /\ run[a].ret.kind # "skipped"

C4_Witness ==
    \E a \in Req : \E b \in Req \ {a} :
        /\ SameKey(a, b) /\ run[b].seen = a
        /\ run[b].ret.kind = "skipped"
        /\ run[a].pc \notin {"new", "gate", "gate_set", "done"}

\* the candidate's message reached the race's subscription before the deadline
PublishedInTime(h) ==
    task[h].state = "ok" /\ task[h].pubAt >= 0 /\ task[h].pubAt < timeout_s

NeverPublished(h) == task[h].state \in {"queued", "failed"}

SoleSuccess(r, h) ==
    /\ Len(run[r].agent_specs) = 2
    /\ h \in RaceHandles(r)
    /\ PublishedInTime(h)
    /\ \A g \in RaceHandles(r) \ {h} : NeverPublished(g)

\* C5: when speculative_race_on_redis returns from a race of two candidates
\* of which one published its result on the race channel before the deadline
\* and the other has failed or not finished, it returns that candidate's
\* published message, and does so before the deadline has elapsed.
C5_RaceReturnsSuccess ==
    \A r \in Req : \A h \in TaskIds :
        (run[r].pc = "race_ret" /\ SoleSuccess(r, h)) =>
            /\ run[r].spec_winner =
                 [ agent |-> task[h].agent, result |-> task[h].out, task_id |-> h ]
            /\ run[r].elapsed < timeout_s

C5_Witness ==
    \E r \in Req : \E h \in TaskIds :
        /\ run[r].pc = "race_ret" /\ SoleSuccess(r, h)
        /\ task[h].pubAt = 1
        /\ \E g \in RaceHandles(r) : task[g].state = "failed"
        /\ Truthy(run[r].spec_winner)

NoneDelivered(r) == \A h \in RaceHandles(r) : task[h].pubAt = -1

\* C6: the wait loop of speculative_race_on_redis always ends, and a race in
\* which no candidate has published returns no winner, with the whole
\* deadline elapsed.
C6_RaceTerminates ==
    /\ \A r \in Req : (run[r].pc = "race_loop") ~> (run[r].pc = "race_ret")
    /\ [](\A r \in Req :
            (run[r].pc = "race_ret" /\ NoneDelivered(r)) =>
                /\ ~Truthy(run[r].spec_winner)
                /\ run[r].elapsed = timeout_s)

C6_Witness ==
    \E r \in Req :
        /\ run[r].pc = "race_ret" /\ NoneDelivered(r)
        /\ Len(run[r].agent_specs) = 2
        /\ \E h \in RaceHandles(r) : task[h].state = "failed"
        /\ \E h \in RaceHandles(r) : task[h].state = "queued"

\* C7: the list fan_out_fan_in returns has one entry per validator it was
\* started with: the entries of those that finished within the window and a
\* timeout marker for each of the others.
C7_FanComplete ==
    \A r \in Req :
        run[r].pc = "fan_ret" =>
            Len(run[r].val_returned) = Len(run[r].fan_specs)

\* the payload handed to the prompt-generation stage, once it has been
PromptStageInput(r) ==
    IF run[r].impl = "celery"
    THEN IF task[<< r, "prompt" >>].state # "none"
         THEN { task[<< r, "prompt" >>].payload } ELSE {}
    ELSE IF run[r].pc = "pipe_sync" /\ run[r].step = 2
         THEN { thr[Orch(r)].payload } ELSE {}

PerceptionResult(r) == Get(run[r].perc_res, "result", << >>)

\* C8: the payload passed to the prompt-generation stage has every key of
\* the perception result with the perception result's value and every other
\* key of the request payload with the request's value, and no other key,
\* in the Celery orchestration and in Orchestrator.pipeline.
C8_PromptPayloadMerged ==
    \A r \in Req : \A p \in PromptStageInput(r) :
        /\ DOMAIN p = DOMAIN run[r].payload \cup DOMAIN PerceptionResult(r)
        /\ \A k \in DOMAIN PerceptionResult(r) : p[k] = PerceptionResult(r)[k]
        /\ \A k \in DOMAIN run[r].payload \ DOMAIN PerceptionResult(r) :
              p[k] = run[r].payload[k]

C8_Witness ==
    \E r \in Req : \E p \in PromptStageInput(r) :
        /\ run[r].impl = "local"
        /\ run[r].payload.characters = "stale"
        /\ p.characters = "c1" /\ p.heuristics = "h1" /\ p.round = "4"

\* the stage names of the events the orchestration itself has published
StagesOf(r) == [ i \in 1..Len(log[Orch(r)]) |-> log[Orch(r)][i].stage ]

Rank(stage) ==
    CASE stage = "perception:done"          -> 1
      [] stage = "prompt:done"              -> 2
      [] stage = "motion:speculative_start" -> 3
      [] stage = "motion:done"              -> 4
      [] stage \in {"validators:done", "validators:skipped"} -> 5
      [] stage = "completed"                -> 6
      [] OTHER                              -> 0

IsProgress(stage) == Rank(stage) > 0

Terminal == {"completed", "error", "skipped"}

\* C9: in the Celery run_orchestration the progress events perception:done,
\* prompt:done, motion:speculative_start, motion:done, validators:done or
\* validators:skipped, completed appear in this order, each at most once
\* and only after all earlier ones; completed, error and skipped are only
\* ever the last event of the run; skipped follows no progress event.
C9_StageOrder ==
    \A r \in Req :
        run[r].impl = "celery" =>
            LET ev   == StagesOf(r)
                prog == SelectSeq(ev, IsProgress)
            IN  /\ \A j \in 1..Len(prog) : Rank(prog[j]) = j
                /\ \A i \in 1..Len(ev) : ev[i] \in Terminal => i = Len(ev)
                /\ \A i \in 1..Len(ev) : ev[i] = "skipped" => Len(prog) = 0

C9_Witness ==
    \E r \in Req :
        /\ run[r].impl = "celery"
        /\ StagesOf(r) = << "orchestration:started", "perception:done",
                            "prompt:done", "motion:speculative_start",
                            "motion:done", "validators:done", "completed" >>
        /\ \E q \in Req : "error" \in { StagesOf(q)[i] : i \in 1..Len(StagesOf(q)) }

LastEvent(r) == log[Orch(r)][Len(log[Orch(r)])]

\* a validator of the run has failed
ValidatorFailed(r) ==
    \/ \E t \in ValHandles(r) : task[t].state = "failed"
    \/ \E i \in 1..Len(run[r].val_returned) : "error" \in DOMAIN run[r].val_returned[i]

\* C10: a run that has ended has published, as its last event, the terminal
\* event that matches what it hands to its caller: completed with the frame
\* count of {ok: true, frames}, skipped with {skipped: true}, error with the
\* text of the raised failure; and a run with a failed validator has ended
\* with the error event.
C10_TerminalEvent ==
    \A r \in Req :
        (run[r].impl \in {"celery", "local"} /\ run[r].pc = "done") =>
            /\ Len(log[Orch(r)]) > 0
            /\ LastEvent(r).stage \in Terminal
            /\ run[r].ret.kind = "ok" =>
                  /\ LastEvent(r).stage = "completed"
                  /\ LastEvent(r).frames = run[r].ret.frames
            /\ run[r].ret.kind = "skipped" => LastEvent(r).stage = "skipped"
            /\ run[r].ret.kind = "raised" =>
                  /\ LastEvent(r).stage = "error"
                  /\ LastEvent(r).error = run[r].ret.error
            /\ ValidatorFailed(r) => LastEvent(r).stage = "error"

\* max_concurrency as configured, 1 when the worker's entry does not set it
Ceiling(w) ==
    IF "max_concurrency" \in DOMAIN Config[w] THEN Config[w].max_concurrency ELSE 1

OwnNet(w, n) == [ v \in Workers |-> IF v = w THEN n ELSE 0 ]

Leaves(c, pc) == rc[c].pc = pc /\ rc'[c].pc # pc

\* C11: reserve_slot's increment raises the counter by one; the call returns
\* True exactly when the value that increment produced is at most the
\* worker's max_concurrency (1 when not configured), having added one to
\* that worker's counter; otherwise it decrements again and returns False,
\* having added nothing.
C11_ReserveContract ==
    [][ \A c \in Callers :
          rc[c].op = "reserve" =>
            LET w == rc[c].w
            IN  /\ Leaves(c, "incr") =>
                      /\ cnt'[w] = cnt[w] + 1
                      /\ IF cnt'[w] <= Ceiling(w)
                         THEN /\ rc'[c].pc = "ret" /\ rc'[c].reserved
                              /\ rc'[c].net = OwnNet(w, 1)
                         ELSE rc'[c].pc = "undo"
                /\ Leaves(c, "undo") =>
                      /\ cnt'[w] = cnt[w] - 1
                      /\ rc'[c].pc = "ret" /\ ~rc'[c].reserved
                      /\ rc'[c].net = OwnNet(w, 0) ]_vars

C11_Witness ==
    \E c \in Callers : \E d \in Callers :
        /\ rc[c].op = "reserve" /\ rc[c].pc = "ret" /\ rc[c].reserved
        /\ rc[c].w = "prompt_generator" /\ cnt["prompt_generator"] = 1
        /\ rc[d].op = "reserve" /\ rc[d].pc = "ret" /\ ~rc[d].reserved
        /\ rc[d].w = "scorer" /\ cnt["scorer"] = 1

Lane(w) == IF "queue" \in DOMAIN Config[w] THEN Config[w].queue ELSE "general"
PickReturned(c) == rc[c].op = "pick" /\ rc[c].pc = "ret" /\ ~rc[c].raised
Before(cands, i) == { cands[j] : j \in 1..(i - 1) }

\* C12: a pick_agent call that reserved a slot returns the first worker of
\* its candidate list whose reservation was granted (every earlier candidate
\* was passed over), together with that worker's queue ("general" when none
\* is configured); the call has raised that worker's counter by exactly one
\* and left every other counter as it found it.
C12_PickFirstReservable ==
    \A c \in Callers :
        PickReturned(c) /\ rc[c].reserved =>
            /\ rc[c].i \in 1..Len(rc[c].cands)
            /\ rc[c].name = rc[c].cands[rc[c].i]
            /\ rc[c].refused = Before(rc[c].cands, rc[c].i)
            /\ rc[c].name \notin rc[c].refused
            /\ rc[c].queue = Lane(rc[c].name)
            /\ rc[c].net = OwnNet(rc[c].name, 1)

C12_Witness ==
    \E c \in Clients :
        /\ PickReturned(c) /\ rc[c].reserved
        /\ rc[c].cands = << "motion_generator", "motion_backup" >>
        /\ rc[c].name = "motion_backup" /\ rc[c].queue = "gpu_backup"
        /\ rc[c].refused = {"motion_generator"}
        /\ cnt["motion_backup"] = 1

NoNet == [ v \in Workers |-> 0 ]
InSeq(s) == { s[j] : j \in 1..Len(s) }

\* C13: a pick_agent call that reserved nothing returns (None, None) when
\* its candidate list is empty, and otherwise the head of the list, a
\* candidate of the highest priority, with its queue, after passing over
\* every candidate and leaving every counter as it found it; it returns
\* (None, None) exactly when no configured worker has a requested capability.
C13_Fallback ==
    \A c \in Callers :
        PickReturned(c) /\ ~rc[c].reserved =>
            /\ rc[c].net = NoNet
            /\ rc[c].name = None <=> \A w \in Workers : ~Matches(w, rc[c].caps)
            /\ rc[c].name = None <=> rc[c].queue = None
            /\ IF rc[c].cands = << >>
               THEN rc[c].name = None /\ rc[c].refused = {}
               ELSE /\ rc[c].name = rc[c].cands[1]
                    /\ \A w \in InSeq(rc[c].cands) :
                          /\ Matches(w, rc[c].caps)
                          /\ Priority(w) <= Priority(rc[c].name)
                    /\ rc[c].refused = InSeq(rc[c].cands)
                    /\ rc[c].queue = Lane(rc[c].name)

C13_Witness ==
    \E c \in Clients :
        /\ PickReturned(c) /\ ~rc[c].reserved
        /\ rc[c].cands = << "micro_detector", "perception_alt" >>
        /\ rc[c].name = "micro_detector" /\ rc[c].queue = "perception"
        /\ cnt["micro_detector"] = 1 /\ cnt["perception_alt"] = 1

AskedCaps == PickCaps \cup { {"perception", "scoring"}, {"smpl", "nl_generation"} }

Ordered(s) ==
    \A i \in 1..Len(s) : \A j \in (i + 1)..Len(s) :
        \/ Priority(s[i]) > Priority(s[j])
        \/ Priority(s[i]) = Priority(s[j]) /\ cnt[s[i]] <= cnt[s[j]]

PickBegins(c) == rc[c].op = "none" /\ rc'[c].op = "pick" /\ ~rc'[c].raised

\* C14: for each of five requests and every state of the counters,
\* choose_agents_for_capability lists exactly the configured
\* workers that have a requested capability, each once, by descending
\* priority and, within a priority, by ascending counter; the step of
\* pick_agent that computes the list changes no counter.
C14_Candidates ==
    /\ [] \A caps \in AskedCaps :
            LET s == choose_agents_for_capability(caps)
            IN  /\ InSeq(s) = { w \in Workers : Matches(w, caps) }
                /\ Len(s) = Cardinality(InSeq(s))
                /\ Ordered(s)
    /\ [][ \A c \in Callers :
              PickBegins(c) =>
                  /\ rc'[c].cands = choose_agents_for_capability(rc'[c].caps)
                  /\ cnt' = cnt ]_vars

C14_Witness ==
    \E c \in Clients :
        /\ rc[c].op = "pick" /\ rc[c].pc = "cap" /\ rc[c].i = 1
        /\ rc[c].cands = << "motion_backup", "motion_generator" >>
        /\ cnt["motion_generator"] = 1 /\ cnt["motion_backup"] = 0
        /\ choose_agents_for_capability({"perception", "scoring"}) =
              << "micro_detector", "validator", "perception_alt", "scorer" >>

Skipped(r) == run[r].ret = [ kind |-> "skipped" ]
PipelineStages ==
    { "perception:done", "prompt:done", "motion:speculative_start",
      "motion:done", "motion:failed", "validators:done", "validators:skipped",
      "completed", "error", "timed_out" }

\* C15: a run_orchestration that read an existing idempotency record has
\* returned {skipped: true} with 'skipped' as its last event and no
\* pipeline stage event, has no Router call, no Celery handle and no
\* thread of its own and wrote no record; and the step in which it finds
\* the record changes no capacity counter, no idempotency record, no task
\* and no Router call.
C15_SkipDoesNothing ==
    /\ [] \A r \in Req :
            (run[r].pc = "done" /\ IdemHit(run[r].seen)) =>
                /\ Skipped(r)
                /\ LastEvent(r).stage = "skipped"
                /\ \A i \in 1..Len(StagesOf(r)) : StagesOf(r)[i] \notin PipelineStages
                /\ rc[Orch(r)] = IdleCall
                /\ \A s \in Slots : task[<< r, s >>] = NoTask
                /\ \A t \in ThreadRoles :
                      thr[<< r, t >>] = NoThread /\ rc[<< r, t >>] = IdleCall
                /\ ~run[r].wrote
    /\ [][ \A r \in Req :
              (~Skipped(r) /\ Skipped(r)') =>
                  /\ IdemHit(idem[idempotency_key(run[r].payload)])
                  /\ UNCHANGED << cnt, ttl, idem, rc, task, thr, pubsub >> ]_vars

C15_Witness ==
    \E r \in Req :
        /\ Skipped(r) /\ run[r].impl = "celery"
        /\ StagesOf(r) = << "orchestration:started", "skipped" >>
        /\ idem[idempotency_key(run[r].payload)] \in Req \ {r}
        /\ \E w \in Workers : cnt[w] > 0

TaskEnded(t) == task[t].state \in {"ok", "failed"}

\* C16: a failing MessageBus.publish changes no outcome: every ended
\* run_agent_task of a registered worker has invoked the worker, and no
\* run_agent_task and no run_orchestration ends with the error that
\* publish raised.
C16_PublishFailureSwallowed ==
    /\ \A t \in TaskIds :
          TaskEnded(t) =>
              /\ task[t].agent \in Registered => task[t].invoked
              /\ task[t].error # "ConnectionError"
    /\ \A r \in Req :
          run[r].pc = "done" =>
              run[r].ret # [ kind |-> "raised", error |-> "ConnectionError" ]

Refused(call) ==
    /\ call.pc = "ret" /\ ~call.reserved
    /\ call.name = None /\ call.queue = None

\* C17: a reserve_slot or pick_agent call that meets an unreachable Redis,
\* at its first command or at a later one, ends without a granted slot and
\* without a worker name (a pick_agent call for which no worker matches
\* issues no command and returns (None, None)); its caller holds no slot
\* afterwards.
C17_FailsClosed ==
    /\ [] \A c \in Callers : rc[c].raised => Refused(rc[c])
    /\ [][ \A c \in Clients :
              /\ \A caps \in DownCaps : ClientPickDown(c, caps) => Refused(rc'[c])
              /\ \A w \in LedgerWorkers : ClientReserveDown(c, w) => Refused(rc'[c])
              /\ (rc[c].raised /\ rc'[c] = IdleCall) => client'[c].pc = "idle" ]_vars

C17_Witness ==
    \E c \in Clients : \E d \in Clients :
        /\ rc[c].op = "pick" /\ rc[c].raised /\ rc[c].caps = {"motion_generation"}
        /\ rc[c].cands = << >>
        /\ rc[d].op = "pick" /\ rc[d].raised /\ rc[d].net["motion_generator"] = 1

IsJson(msg) == msg.kind = "json"
Racing(r) == run[r].pc \in {"race_loop", "race_poll", "race_end", "race_ret"}

\* C18: in speculative_race_on_redis the winner is the first well-formed
\* message received: every message received before it was malformed and was
\* followed by another turn of the loop, nothing is received after it, the
\* winner does not change once taken, and it is what the race returns;
\* while no well-formed message has been received there is no winner.
C18_FirstParsedWins ==
    /\ [] \A r \in Req :
            Racing(r) =>
                LET got == run[r].recvd
                IN  /\ \A i \in 1..(Len(got) - 1) : ~IsJson(got[i])
                    /\ IF got # << >> /\ IsJson(got[Len(got)])
                       THEN /\ run[r].winner = got[Len(got)].obj
                            /\ run[r].pc \in {"race_end", "race_ret"}
                       ELSE run[r].winner = << >>
                    /\ run[r].pc = "race_ret" => run[r].spec_winner = run[r].winner
    /\ [][ \A r \in Req :
              /\ (Racing(r) /\ Truthy(run[r].winner)) =>
                    /\ run'[r].winner = run[r].winner
                    /\ run'[r].recvd = run[r].recvd
              /\ (Racing(r) /\ Len(run'[r].recvd) > Len(run[r].recvd)
                     /\ ~IsJson(Head(pubsub[r].queue))) =>
                    /\ run'[r].pc = "race_loop"
                    /\ run'[r].winner = << >> ]_vars

C18_Witness ==
    \E r \in Req : \E h \in TaskIds : \E g \in TaskIds \ {h} :
        /\ run[r].pc = "race_ret"
        /\ Len(run[r].recvd) = 2
        /\ ~IsJson(run[r].recvd[1])
        /\ run[r].spec_winner = run[r].recvd[2].obj
        /\ run[r].spec_winner.task_id = h
        /\ task[g].state = "ok" /\ task[g].pubAt >= 0
        /\ task[g].agent = task[h].agent

\* C19: when the race returns a winner, revoke has been requested for
\* exactly the launched handles whose id is not the winner's task_id,
\* whichever of those requests raised, and the winner returned is the one
\* taken in the loop; a race without winner revokes nothing.
C19_LosersRevoked ==
    \A r \in Req :
        run[r].pc = "race_ret" =>
            /\ run[r].spec_winner = run[r].winner
            /\ run[r].revoke_err \subseteq RaceHandles(r)
            /\ \A h \in RaceHandles(r) :
                  task[h].revoked <=>
                      (Truthy(run[r].spec_winner) /\ h # run[r].spec_winner.task_id)
            /\ \A t \in TaskIds \ RaceHandles(r) : ~task[t].revoked

C19_Witness ==
    \E r \in Req : \E h \in TaskIds :
        /\ run[r].pc = "race_ret" /\ Len(run[r].agent_specs) = 3
        /\ run[r].spec_winner.task_id = h /\ h \in RaceHandles(r)
        /\ Cardinality(run[r].revoke_err) = 1
        /\ \A g \in RaceHandles(r) \ {h} : task[g].revoked
        /\ ~task[h].revoked

OnChannel(q, t) == SelectSeq(q, LAMBDA m : IsJson(m) /\ m.obj.task_id = t)

\* C21: a message of a run_agent_task invocation appears on a race channel
\* only in the step in which the invocation ends with its worker's result,
\* one message, on the channel its payload's _spec_id names; an invocation
\* that failed, or whose payload has no _spec_id, has put nothing there.
C21_RacePublishOnSuccess ==
    /\ [][ \A r \in Req : \A t \in TaskIds :
              Len(OnChannel(pubsub'[r].queue, t)) > Len(OnChannel(pubsub[r].queue, t)) =>
                  /\ Len(OnChannel(pubsub'[r].queue, t)) = 1
                  /\ task[t].state = "queued"
                  /\ task'[t].state = "ok" /\ task'[t].invoked
                  /\ Get(task[t].payload, "_spec_id", None) = r ]_vars
    /\ [] \A t \in TaskIds :
            (task[t].state = "failed" \/ "_spec_id" \notin DOMAIN task[t].payload) =>
                /\ task[t].pubAt = -1
                /\ \A r \in Req :
                      /\ OnChannel(pubsub[r].queue, t) = << >>
                      /\ OnChannel(run[r].recvd, t) = << >>

C21_Witness ==
    \E r \in Req : \E t \in TaskIds : \E g \in TaskIds :
        /\ task[t].state = "ok" /\ Len(OnChannel(pubsub[r].queue, t)) = 1
        /\ g \in RaceHandles(r) /\ task[g].state = "failed"
        /\ task[g].agent \in Registered
        /\ task[<< r, "perc" >>].state = "ok"

InSeqOf(s) == { s[i] : i \in 1..Len(s) }

\* C22: a run_orchestration whose validators were launched and of which
\* none has failed ends with validators:done and completed and returns ok,
\* whether or not every validator finished within the collection window.
C22_ValidatorTimeoutTolerated ==
    \A r \in Req :
        ( /\ run[r].impl = "celery" /\ run[r].pc = "done"
          /\ run[r].validators # << >>
          /\ \A t \in ValHandles(r) : task[t].state # "failed" ) =>
            /\ run[r].ret.kind = "ok"
            /\ "validators:done" \in InSeqOf(StagesOf(r))
            /\ LastEvent(r).stage = "completed"

NoWorkerError(caps) ==
    CASE caps = {"perception"} -> "No perception agent available"
      [] caps = {"nl_generation"} -> "No prompt generator available"
      [] caps = {"motion_generation"} -> "No motion generator candidates available"

NoneListed(caps) == \A w \in Workers : ~Matches(w, caps)
RaceStarted(r) == "motion:speculative_start" \in InSeqOf(StagesOf(r))

\* C23: a Celery run_orchestration ends with the error "Motion generation
\* failed (no speculative winner)" exactly when its race was started and
\* returned no winner, and with one of the three no-worker errors only when
\* agents.yaml lists no worker for that stage's capability, in which case
\* no race was started; the no-winner error is none of the no-worker errors.
C23_DistinctErrors ==
    \A r \in Req :
        (run[r].impl = "celery" /\ run[r].pc = "done") =>
            /\ (RaceStarted(r) /\ ~Truthy(run[r].spec_winner)) <=>
                  run[r].ret = [ kind |-> "raised",
                                 error |-> "Motion generation failed (no speculative winner)" ]
            /\ run[r].ret.kind = "raised" =>
                  \A caps \in { {"perception"}, {"nl_generation"}, {"motion_generation"} } :
                      /\ run[r].ret.error = NoWorkerError(caps) =>
                            /\ NoneListed(caps)
                            /\ ~RaceStarted(r)
                            /\ "motion:failed" \notin InSeqOf(StagesOf(r))
                      /\ NoWorkerError(caps) # "Motion generation failed (no speculative winner)"
            /\ "motion:failed" \in InSeqOf(StagesOf(r)) =>
                  (run[r].ret.kind = "raised" /\ RaceStarted(r))

C23_Witness ==
    \E r \in Req :
        /\ run[r].pc = "done" /\ RaceStarted(r)
        /\ run[r].ret.kind = "raised"
        /\ LastEvent(r).stage = "error"
        /\ LastEvent(r).error = "Motion generation failed (no speculative winner)"
        /\ run[r].elapsed = timeout_s

\* C24: whatever its holders do, a counter does not stay above 0 forever
\* while no reserve_slot call on it is under way: the expiry set by the
\* reserve that raised it brings it back to 0.
C24_SelfHeals ==
    \A w \in LedgerWorkers : []<>(cnt[w] <= 0 \/ ReserveInProgress(w))

\* the publishers that act for the orchestration r: the orchestration, the
\* run_agent_task invocations it launched and its in-process threads
PublishersOf(r) == { p \in TaskIds \cup Threads : p[1] = r }

\* C25: every event published by an orchestration, by a run_agent_task
\* invocation it launched or by one of its threads carries the task_id of
\* the orchestration.
C25_OneTaskId ==
    \A r \in Req : \A p \in PublishersOf(r) :
        \A i \in 1..Len(log[p]) : log[p][i].task_id = Orch(r)

\* C26: every orchestration that has begun ends, and ends with completed,
\* error or skipped as its last event, also when a worker never returns.
C26_RunTerminates ==
    \A r \in Req :
        [](run[r].pc # "new" =>
             <>(run[r].pc = "done" /\ LastEvent(r).stage \in Terminal))

\* the in-process invocations that a granted reserve_slot admitted to w and
\* that have not released yet
Admitted(w) ==
    { t \in SyncCallers :
        /\ thr[t].agent = w /\ thr[t].reserved /\ thr[t].released = 0
        /\ thr[t].pc \in {"sync", "exec"} }

\* C27: for every worker, the invocations admitted by a granted
\* reserve_slot and not yet released are at most max_concurrency.
C27_AdmittedWithinCeiling ==
    \A w \in Workers : Cardinality(Admitted(w)) <= MaxConcurrency(w)

\* the race of r is between its subscribe and its unsubscribe
RaceWaiting(r) ==
    run[r].pc \in {"race_launch", "race_loop", "race_poll", "race_end"}

\* the coordinator of r read the published message obj from its subscription
Received(r, obj) ==
    \E i \in 1..Len(run[r].recvd) :
        Parses(run[r].recvd[i]) /\ run[r].recvd[i].obj = obj

\* C28: speculative_race_on_redis launches candidates only while it is
\* subscribed to the race channel and unsubscribes only when the wait has
\* ended; no candidate's success misses the subscription while the race is
\* waiting, and when a candidate published before the deadline the
\* coordinator has received a success: that one, or one received before it.
C28_SubscribedBeforeLaunch ==
    /\ [][\A r \in Req : Race_Launch(r) => pubsub[r].subscribed]_vars
    /\ [][\A r \in Req :
            (pubsub[r].subscribed /\ ~pubsub'[r].subscribed) =>
                run[r].pc = "race_end" /\ run'[r].pc = "race_ret"]_vars
    /\ [](\A r \in Req : \A h \in RaceHandles(r) :
            (RaceWaiting(r) /\ task[h].state = "ok") => task[h].pubAt >= 0)
    /\ [](\A r \in Req : \A h \in RaceHandles(r) :
            (run[r].pc = "race_ret" /\ PublishedInTime(h)) =>
                /\ Truthy(run[r].spec_winner)
                /\ Received(r, run[r].spec_winner)
                /\ \/ run[r].spec_winner.task_id = h
                   \/ PublishedInTime(run[r].spec_winner.task_id))

C28_Witness ==
    \E r \in Req : \E h \in RaceHandles(r) :
        /\ run[r].pc = "race_ret" /\ PublishedInTime(h)
        /\ task[h].pubAt = 1
        /\ run[r].spec_winner.task_id = h
        /\ Len(run[r].recvd) = 2
        /\ \E g \in RaceHandles(r) : task[g].state = "ok" /\ task[g].pubAt = -1

\* return results: the caller holds the list object the threads append to
HeldList(r) == run[r].val_list

\* the fan-out threads of r that have ended
FanEnded(r) == { t \in FanThreads(r) : thr[t].pc = "done" }

\* C29: once fan_out_fan_in has returned, the list its caller holds stays
\* what it was at the return, and every worker thread that has ended has
\* released its capacity slot.
C29_ResultListFinal ==
    \A r \in Req :
        run[r].pc \in {"fan_ret", "done"} =>
            /\ HeldList(r) = run[r].val_returned
            /\ \A t \in FanEnded(r) :
                   thr[t].agent \in Registered => thr[t].released = 1

\* r is about to read the idempotency record
AtGate(r) ==
    \/ run[r].impl = "celery" /\ run[r].pc = "gate"
    \/ run[r].impl = "local" /\ run[r].pc = "new"

EndedInError(r) == run[r].pc = "done" /\ run[r].ret.kind = "raised"

\* r has started a stage: a Router call, a Celery handle or thread of its own
StageWork(r) ==
    \/ rc[Orch(r)] # IdleCall
    \/ \E s \in Slots : task[<< r, s >>] # NoTask
    \/ \E t \in ThreadRoles : thr[<< r, t >>] # NoThread

\* C30: a run has written its idempotency record before it starts any
\* stage; a record disappears only by expiring, also when its run failed;
\* and a request that reads the gate after a run for the same key has ended
\* in error, while that run's record is still there, returns
\* {skipped: true} in that step, changes nothing but its own outcome and
\* skipped event, and never does any stage work.
C30_RecordSurvivesFailure ==
    /\ [](\A r \in Req : StageWork(r) => run[r].wrote)
    /\ [][\A r \in Req :
            (~run[r].wrote /\ run'[r].wrote) =>
                idem'[idempotency_key(run[r].payload)] = r /\ ~StageWork(r)']_vars
    /\ [][\A k \in IdemKeys :
            (idem[k] # None /\ idem'[k] = None) => IdemExpire(k)]_vars
    /\ [][\A a \in Req : \A b \in Req \ {a} :
            ( /\ SameKey(a, b) /\ EndedInError(a)
              /\ idem[idempotency_key(run[a].payload)] = a
              /\ AtGate(b) /\ ~AtGate(b)' ) =>
                /\ Skipped(b)'
                /\ UNCHANGED << cnt, ttl, idem, pubsub, rc, client, thr, task >>]_vars
    /\ [](\A b \in Req : Skipped(b) => ~StageWork(b) /\ ~run[b].wrote)

C30_Witness ==
    \E a \in Req : \E b \in Req \ {a} :
        /\ SameKey(a, b) /\ EndedInError(a) /\ LastEvent(a).stage = "error"
        /\ Skipped(b) /\ run[b].seen = a /\ run[b].seen_ret = "raised"
        /\ run[b].impl = "celery"
        /\ idem[idempotency_key(run[a].payload)] = a
        /\ \E s \in Slots : task[<< a, s >>].state = "failed"

====
